---------------------------- MODULE Spec2Model ----------------------------
(***************************************************************************)
(* A model of the claim-page verification endpoint (src/api/verify.js):    *)
(* its handler, the order pipeline (handleOrderVerification,               *)
(* findShopifyOrder, validateOrderForDelivery), the username verification  *)
(* (handleUsernameVerification) and the delivery registration              *)
(* (handleDeliveryRegistration, saveToAirtable); and of three other        *)
(* handlers the repository holds: the username-only handler of             *)
(* src/verify.js, the scraping handler of src/unnamed/part_003 and the     *)
(* mock order verification of src/unnamed/part_001.                        *)
(*                                                                         *)
(* Strings are sequences of one-character strings, so that trim,           *)
(* toLowerCase, the prefix regexes and the Set de-duplication are computed *)
(* as the code computes them.  Money amounts are decimal strings with two  *)
(* decimals, written as a number of cents; parseFloat and the + of the     *)
(* refund sum are IEEE-754 binary64 operations on bit sequences.           *)
(***************************************************************************)
EXTENDS Integers, Sequences, FiniteSets, TLC

VARIABLES
    vpc,        \* validator: "input" before the call, "validated" after it, or "idle"
    order,      \* validator: the order handed to validateOrderForDelivery
    decision,   \* validator: what validateOrderForDelivery returned
    req,        \* verify_order: the request's orderNumber and email
    creds,      \* verify_order: SHOPIFY_SHOP_DOMAIN and SHOPIFY_ACCESS_TOKEN are set
    store,      \* verify_order: the orders the order store holds, newest first
    opc,        \* verify_order: "start", "byName", "byEmail", "done", or "idle";
                \* part_001: "mock", "done"
    cleanEmail, \* verify_order: email.toLowerCase().trim()
    uniqueSearchQueries,       \* findShopifyOrder: the candidate keys
    qi,                        \* findShopifyOrder: index of the next candidate
    foundOrderWithWrongEmail,  \* findShopifyOrder: the remembered wrong-owner order
    searchResult,              \* what findShopifyOrder returned
    calls,      \* verify_order: the order-store calls made so far, with their answers
    res,        \* verify_order: the response sent
    deliveryData,        \* register_delivery: which parts the request's deliveryData has:
                         \* order, roblox, and (complete) the orderNumber, email,
                         \* username and userId inside them
    airtableConfigured,  \* register_delivery: AIRTABLE_API_KEY and AIRTABLE_BASE_ID are set
    dpc,            \* handleDeliveryRegistration: "start", "waiting", "done", or "idle"
    spc,            \* saveToAirtable: "idle", "attempt", "discovery", "resolved", "rejected"
    now,            \* register_delivery: milliseconds since the handler started
    started,        \* saveToAirtable: when the pending sink request was sent
    ti,             \* saveToAirtable: index of the table being tried
    registrationId, \* saveToAirtable: the id written into the record
    lastError,      \* saveToAirtable: the table of the last failed attempt
    sink,           \* the records the sink has created, in order of creation
    timedOut,       \* register_delivery: the handler's timer has fired
    timer,          \* register_delivery: the timer of the race: "unset", "armed", "fired"
    responses,      \* register_delivery: the responses sent, in order
    username,       \* verify_username: the request's username
    directory,      \* verify_username: the accounts the identity provider knows
    upc,            \* handleUsernameVerification: "start", "primary", "search",
                    \* "avatar", "done", or "idle"; src/verify.js: "verify",
                    \* "getByUsername", "headshot", "done", "threw"; part_003:
                    \* "scraping", "keywordSearch", "avatar", "profile",
                    \* "searchPage", "done"
    matched,        \* handleUsernameVerification: userData / exactMatch
    method,         \* handleUsernameVerification: the lookup that matched
    ucalls,         \* verify_username: the identity-provider calls made so far
    ures,           \* verify_username: the response sent
    request,        \* handler: the request's method and body
    configured,     \* handler: the deployment has its environment variables set
    hpc,            \* handler: "start", "dispatched", "testing", "done", or "idle"
    route,          \* handler: the operation the request was dispatched to
    hres            \* handler: the response sent by the handler itself

validatorVars == <<vpc, order, decision>>

orderVars == <<req, creds, store, opc, cleanEmail, uniqueSearchQueries, qi,
               foundOrderWithWrongEmail, searchResult, calls, res>>

deliveryVars == <<deliveryData, airtableConfigured, dpc, spc, now, started, ti,
                  registrationId, lastError, sink, timedOut, timer, responses>>

usernameVars == <<username, directory, upc, matched, method, ucalls, ures>>

handlerVars == <<request, configured, hpc, route, hres>>

vars == <<validatorVars, orderVars, deliveryVars, usernameVars, handlerVars>>

Null == "null"

---------------------------------------------------------------------------
(* Strings *)

IsPrefix(p, s) == Len(p) <= Len(s) /\ SubSeq(s, 1, Len(p)) = p

\* s.replace(/^p/, '')
StripPrefix(s, p) == IF IsPrefix(p, s) THEN SubSeq(s, Len(p) + 1, Len(s)) ELSE s

\* s.replace(/^(p1|p2|...)/, ''): the first alternative that matches is removed
RECURSIVE StripAny(_, _)
StripAny(s, ps) ==
    IF ps = <<>> THEN s
    ELSE IF IsPrefix(Head(ps), s) THEN StripPrefix(s, Head(ps))
    ELSE StripAny(s, Tail(ps))

WhiteSpace == {" ", "\t", "\n"}

\* s.trim()
Trim(s) ==
    LET keep == {i \in 1..Len(s) : s[i] \notin WhiteSpace}
    IN  IF keep = {} THEN <<>>
        ELSE SubSeq(s, CHOOSE i \in keep : \A j \in keep : i <= j,
                       CHOOSE i \in keep : \A j \in keep : i >= j)

UpperCase == <<"A", "B", "C", "F", "G", "X">>

LowerCase == <<"a", "b", "c", "f", "g", "x">>

\* s.toLowerCase(), over the letters the model's strings are made of
ToLowerCase(s) ==
    [i \in 1..Len(s) |->
        IF \E k \in 1..Len(UpperCase) : UpperCase[k] = s[i]
        THEN LowerCase[CHOOSE k \in 1..Len(UpperCase) : UpperCase[k] = s[i]]
        ELSE s[i]]

\* s.includes(sub)
Includes(s, sub) ==
    \E i \in 1..(Len(s) - Len(sub) + 1) : SubSeq(s, i, i + Len(sub) - 1) = sub

Digits == <<"0", "1", "2", "3", "4", "5", "6", "7", "8", "9">>

\* n.toString() of a natural number
RECURSIVE numberToString(_)
numberToString(n) ==
    IF n < 10 THEN <<Digits[n + 1]>>
    ELSE Append(numberToString(n \div 10), Digits[(n % 10) + 1])

\* the list kept as it is, duplicates included
KeepAll(seq) == seq

\* [...new Set(seq)]: the first occurrence of each element, in order
Unique(seq) ==
    LET first == {i \in 1..Len(seq) : \A j \in 1..(i - 1) : seq[j] # seq[i]}
        RECURSIVE pick(_)
        pick(i) == IF i > Len(seq) THEN <<>>
                   ELSE (IF i \in first THEN <<seq[i]>> ELSE <<>>) \o pick(i + 1)
    IN  pick(1)

\* /^[^\s@]+@[^\s@]+\.[^\s@]+$/.test(s)
emailRegex(s) ==
    \E at \in 2..Len(s) :
        /\ s[at] = "@"
        /\ \A k \in 1..Len(s) : s[k] \notin WhiteSpace /\ (s[k] = "@" => k = at)
        /\ \E dot \in (at + 2)..(Len(s) - 1) : s[dot] = "."

---------------------------------------------------------------------------
(* IEEE-754 binary64, non-negative values.  A number is zero or           *)
(* [m |-> bits, e |-> k]: 53 bits, most significant first and equal to 1, *)
(* of weights 2^k, 2^(k-1), ...                                           *)

Precision == 53

FZero == [m |-> <<>>, e |-> 0]

Zeros(n) == [i \in 1..n |-> 0]

\* the binary digits of a natural number below 2^30, most significant first
BitLen(n) == CHOOSE l \in 0..30 : n < 2^l /\ (l = 0 \/ n >= 2^(l - 1))

BinDigits(n) == [i \in 1..BitLen(n) |-> (n \div 2^(BitLen(n) - i)) % 2]

\* bit j (1 is the most significant) of an 8-bit number
ByteBit(byte, j) == (byte \div 2^(8 - j)) % 2

\* the k-th group of 8 bits of a bit sequence, as a number
ToLimb(bits, k) ==
    LET o == 8 * (k - 1)
    IN  bits[o + 1] * 128 + bits[o + 2] * 64 + bits[o + 3] * 32 + bits[o + 4] * 16
        + bits[o + 5] * 8 + bits[o + 6] * 4 + bits[o + 7] * 2 + bits[o + 8]

\* A + B + c for two sequences of 8-bit limbs of one length; the first element
\* of the result is the carry out
RECURSIVE AddLimbs(_, _, _)
AddLimbs(A, B, c) ==
    IF A = <<>> THEN <<c>>
    ELSE LET k == Len(A)
             s == A[k] + B[k] + c
         IN  IF s < 256
             THEN Append(AddLimbs(SubSeq(A, 1, k - 1), SubSeq(B, 1, k - 1), 0), s)
             ELSE Append(AddLimbs(SubSeq(A, 1, k - 1), SubSeq(B, 1, k - 1), 1), s - 256)

\* a + b + c for two bit sequences of one length; the result is one bit longer
AddBits(a, b, c) ==
    LET n   == Len(a)
        k   == (n + 7) \div 8
        ap  == Zeros(8 * k - n) \o a
        bp  == Zeros(8 * k - n) \o b
        sum == AddLimbs([i \in 1..k |-> ToLimb(ap, i)], [i \in 1..k |-> ToLimb(bp, i)], c)
        all == [i \in 1..(8 * k + 1) |->
                   IF i = 1 THEN sum[1]
                   ELSE ByteBit(sum[((i - 2) \div 8) + 2], ((i - 2) % 8) + 1)]
    IN  SubSeq(all, 8 * k + 1 - n, 8 * k + 1)

LeadingZeros(bits) ==
    IF \A i \in 1..Len(bits) : bits[i] = 0 THEN Len(bits)
    ELSE (CHOOSE i \in 1..Len(bits) :
              bits[i] = 1 /\ \A j \in 1..(i - 1) : bits[j] = 0) - 1

\* round-to-nearest, ties-to-even, of bits (first bit of weight 2^e) and a
\* sticky flag for what lies below them
RoundBits(bits, e, sticky) ==
    LET z    == LeadingZeros(bits)
        b    == SubSeq(bits, z + 1, Len(bits))
        e1   == e - z
    IN  IF b = <<>> THEN FZero
        ELSE IF Len(b) <= Precision
        THEN [m |-> b \o Zeros(Precision - Len(b)), e |-> e1]
        ELSE LET keep  == SubSeq(b, 1, Precision)
                 guard == b[Precision + 1]
                 rest  == sticky \/ \E i \in (Precision + 2)..Len(b) : b[i] = 1
                 up    == guard = 1 /\ (rest \/ keep[Precision] = 1)
                 inc   == AddBits(keep, Zeros(Precision), 1)
             IN  IF ~up THEN [m |-> keep, e |-> e1]
                 ELSE IF inc[1] = 1
                 THEN [m |-> SubSeq(inc, 1, Precision), e |-> e1 + 1]
                 ELSE [m |-> Tail(inc), e |-> e1]

\* r/100 (0 <= r < 100) in binary, 8 digits at a time: the first k groups
RECURSIVE FracBytes(_, _)
FracBytes(r, k) ==
    IF k = 0 THEN <<>>
    ELSE <<(256 * r) \div 100>> \o FracBytes((256 * r) % 100, k - 1)

\* what is left of r/100 below its first k groups of 8 digits
RECURSIVE FracRem(_, _)
FracRem(r, k) == IF k = 0 THEN r ELSE FracRem((256 * r) % 100, k - 1)

FracBits(r, k) ==
    LET bytes == FracBytes(r, k)
    IN  [i \in 1..(8 * k) |-> ByteBit(bytes[((i - 1) \div 8) + 1], ((i - 1) % 8) + 1)]

\* parseFloat of the decimal string of c cents ("0.07" is c = 7): the binary64
\* nearest to c/100.  64 binary places are enough: c/100 >= 2^-7 leaves at
\* least 57 significant digits.
ParseFloat(c) ==
    LET int  == BinDigits(c \div 100)
        bits == int \o FracBits(c % 100, 8)
    IN  RoundBits(bits, Len(int) - 1, FracRem(c % 100, 8) # 0)

\* x + y of two binary64 numbers
FAdd(x, y) ==
    IF x = FZero THEN y
    ELSE IF y = FZero THEN x
    ELSE LET e  == IF x.e >= y.e THEN x.e ELSE y.e
             xs == Zeros(e - x.e) \o x.m
             ys == Zeros(e - y.e) \o y.m
             n  == IF Len(xs) >= Len(ys) THEN Len(xs) ELSE Len(ys)
             xp == xs \o Zeros(n - Len(xs))
             yp == ys \o Zeros(n - Len(ys))
         IN  RoundBits(AddBits(xp, yp, 0), e + 1, FALSE)

\* x >= y of two binary64 numbers
FGe(x, y) ==
    IF y = FZero THEN TRUE
    ELSE IF x = FZero THEN FALSE
    ELSE \/ x.e > y.e
         \/ /\ x.e = y.e
            /\ \A i \in 1..Precision :
                   (\A j \in 1..(i - 1) : x.m[j] = y.m[j]) => x.m[i] >= y.m[i]

---------------------------------------------------------------------------
(* validateOrderForDelivery *)

\* refunds.reduce((sum, refund) => sum + parseFloat(refund.amount || 0), 0);
\* a missing amount and the amount 0 both add 0
RECURSIVE totalRefunded(_, _)
totalRefunded(refunds, sum) ==
    IF refunds = <<>> THEN sum
    ELSE totalRefunded(Tail(refunds), FAdd(sum, ParseFloat(Head(refunds).amount)))

Valid == [valid |-> TRUE, reason |-> Null]

Invalid(reason) == [valid |-> FALSE, reason |-> reason]

\* the same five tests with fulfilment tested before cancellation
validateFulfilmentFirst(o) ==
    IF o.financial_status # "paid" /\ o.financial_status # "partially_paid"
    THEN Invalid("Order payment not confirmed")
    ELSE IF o.fulfillment_status = "fulfilled"
    THEN Invalid("Order has already been fulfilled")
    ELSE IF o.cancelled_at # Null
    THEN Invalid("Order has been cancelled")
    ELSE IF o.financial_status = "refunded" \/ o.financial_status = "partially_refunded"
    THEN Invalid("Order has been refunded")
    ELSE IF /\ Len(o.refunds) > 0
            /\ FGe(totalRefunded(o.refunds, FZero), ParseFloat(o.total_price))
    THEN Invalid("Order has been fully refunded")
    ELSE Valid

validateOrderForDelivery(o) ==
    IF o.financial_status # "paid" /\ o.financial_status # "partially_paid"
    THEN Invalid("Order payment not confirmed")
    ELSE IF o.cancelled_at # Null
    THEN Invalid("Order has been cancelled")
    ELSE IF o.fulfillment_status = "fulfilled"
    THEN Invalid("Order has already been fulfilled")
    ELSE IF o.financial_status = "refunded" \/ o.financial_status = "partially_refunded"
    THEN Invalid("Order has been refunded")
    ELSE IF /\ Len(o.refunds) > 0
            /\ FGe(totalRefunded(o.refunds, FZero), ParseFloat(o.total_price))
    THEN Invalid("Order has been fully refunded")
    ELSE Valid

---------------------------------------------------------------------------
(* Values of the JSON body: a string, a (non-zero) number, or nothing *)

JsString(s) == [t |-> "string", s |-> s]

JsNumber(s) == [t |-> "number", s |-> s]

JsUndefined == [t |-> "undefined", s |-> <<>>]

\* the truthiness that !x and x && ... test
Truthy(v) == (v.t = "string" /\ v.s # <<>>) \/ v.t = "number" \/ v.t = "object"

---------------------------------------------------------------------------
(* The order store: GET orders.json?name=<query>&limit=1 and               *)
(* GET orders.json?email=<email>&limit=50                                   *)

NameLimit == 1

EmailLimit == 50

FirstN(seq, n) == SubSeq(seq, 1, IF Len(seq) < n THEN Len(seq) ELSE n)

\* the orders of display name `query`
NameSearch(orders, query) ==
    FirstN(SelectSeq(orders, LAMBDA o : o.name = query), NameLimit)

\* the orders placed under `email`; the store compares addresses without case
EmailSearch(orders, email) ==
    FirstN(SelectSeq(orders, LAMBDA o : o.email # <<>>
                                         /\ ToLowerCase(o.email) = ToLowerCase(email)),
           EmailLimit)

---------------------------------------------------------------------------
(* findShopifyOrder *)

HASH == <<"#">>

AGDASH == <<"A", "G", "-">>

AF == <<"A", "F">>

\* the candidate list with the literal reference tried last
searchQueriesLiteralLast(orderNumber) ==
    << StripPrefix(orderNumber, HASH),
       HASH \o StripPrefix(orderNumber, HASH),
       StripPrefix(orderNumber, AGDASH),
       AGDASH \o StripAny(orderNumber, <<AGDASH, HASH>>),
       StripPrefix(orderNumber, AF),
       AF \o StripAny(orderNumber, <<AF, AGDASH, HASH>>),
       orderNumber >>

searchQueries(orderNumber) ==
    << orderNumber,
       StripPrefix(orderNumber, HASH),
       HASH \o StripPrefix(orderNumber, HASH),
       StripPrefix(orderNumber, AGDASH),
       AGDASH \o StripAny(orderNumber, <<AGDASH, HASH>>),
       StripPrefix(orderNumber, AF),
       AF \o StripAny(orderNumber, <<AF, AGDASH, HASH>>) >>

NoOrder == [name |-> <<>>]

NotFound == [found |-> FALSE, order |-> NoOrder, emailMatch |-> FALSE]

Found(o, emailMatch) == [found |-> TRUE, order |-> o, emailMatch |-> emailMatch]

\* any order that carries an email is taken for the caller's
emailPresent(o, email) == o.email # <<>>

\* order.email && order.email.toLowerCase() === email
emailMatches(o, email) == o.email # <<>> /\ ToLowerCase(o.email) = email

\* the test of data.orders.find in the by-email scan
matchesQuery(o, query) ==
    LET bare == StripAny(query, <<HASH, AGDASH, AF>>)
    IN  \/ o.name = query
        \/ numberToString(o.order_number) = bare
        \/ (o.name # <<>> /\ Includes(o.name, AGDASH) /\ o.name = AGDASH \o bare)

matchingOrders(orders, queries) ==
    SelectSeq(orders, LAMBDA o : \E k \in 1..Len(queries) : matchesQuery(o, queries[k]))

\* the remembered wrong-owner order is dropped
wrongOwnerDropped(wrong) == NotFound

\* what is returned once neither search found an email match
wrongOwnerOrNull(wrong) == IF wrong # NoOrder THEN Found(wrong, FALSE) ELSE NotFound

---------------------------------------------------------------------------
(* handleOrderVerification *)

\* a response of the order verification; `interpolated` holds the values a
\* handler writes into the text of `details`, none when the text is fixed
NoResponse == [status |-> 0, error |-> Null, details |-> Null, verified |-> FALSE,
               orderNumber |-> <<>>, email |-> <<>>, interpolated |-> <<>>]

ErrorResponse(status, error, details) ==
    [status |-> status, error |-> error, details |-> details, verified |-> FALSE,
     orderNumber |-> <<>>, email |-> <<>>, interpolated |-> <<>>]

\* the verified answer echoing the reference as the caller spelled it
VerifiedAsTyped(o, email) ==
    [status |-> 200, error |-> Null, details |-> Null, verified |-> TRUE,
     orderNumber |-> Trim(req.orderNumber.s), email |-> email, interpolated |-> <<>>]

Verified(o, email) ==
    [status |-> 200, error |-> Null, details |-> Null, verified |-> TRUE,
     orderNumber |-> o.name, email |-> email, interpolated |-> <<>>]

\* the response when the emailMatch flag of the result is not consulted
respondWithoutOwnerCheck(result, email) ==
    IF ~result.found
    THEN ErrorResponse(404, "Order not found",
                       "Please check your order number and try again")
    ELSE LET validationResult == validateOrderForDelivery(result.order)
         IN  IF ~validationResult.valid
             THEN ErrorResponse(400, validationResult.reason, Null)
             ELSE Verified(result.order, email)

\* the response that follows findShopifyOrder's return
respond(result, email) ==
    IF ~result.found
    THEN ErrorResponse(404, "Order not found",
                       "Please check your order number and try again")
    ELSE IF ~result.emailMatch
    THEN ErrorResponse(400, "Email does not match the order number",
                       "The order number exists but is associated with a different email address. Please check your email and try again.")
    ELSE LET validationResult == validateOrderForDelivery(result.order)
         IN  IF ~validationResult.valid
             THEN ErrorResponse(400, validationResult.reason, Null)
             ELSE Verified(result.order, email)

\* findShopifyOrder returns `result`; the handler answers
Return(result) ==
    /\ searchResult' = result
    /\ res' = respond(result, cleanEmail)
    /\ opc' = "done"

\* the handler answers before any search
Reject(response) ==
    /\ res' = response
    /\ opc' = "done"
    /\ UNCHANGED <<cleanEmail, uniqueSearchQueries, qi, foundOrderWithWrongEmail,
                   searchResult, calls>>

\* the entry of the handler, up to the first order-store call
handleOrderVerification ==
    /\ opc = "start"
    /\ UNCHANGED <<validatorVars, deliveryVars, usernameVars, handlerVars>>
    /\ UNCHANGED <<req, creds, store>>
    /\ IF ~Truthy(req.orderNumber) \/ ~Truthy(req.email)
       THEN Reject(ErrorResponse(400, "Order number and email are required", Null))
       ELSE IF req.orderNumber.t # "string" \/ req.email.t # "string"
       \* .trim() or .toLowerCase() of a non-string throws; handler's catch answers
       THEN Reject(ErrorResponse(500, "Internal server error", Null))
       ELSE IF ~emailRegex(Trim(ToLowerCase(req.email.s)))
       THEN Reject(ErrorResponse(400, "Invalid email format", Null))
       ELSE IF ~creds
       THEN Reject(ErrorResponse(500, "Server configuration error", Null))
       ELSE /\ cleanEmail' = Trim(ToLowerCase(req.email.s))
            /\ uniqueSearchQueries' = Unique(searchQueries(Trim(req.orderNumber.s)))
            /\ qi' = 1
            /\ opc' = "byName"
            /\ UNCHANGED <<foundOrderWithWrongEmail, searchResult, calls, res>>

Call(kind, query, ok, orders) ==
    [kind |-> kind, query |-> query, ok |-> ok, orders |-> orders]

\* the by-name loop moves to the next candidate, or leaves for the by-email query
NextCandidate ==
    /\ qi' = qi + 1
    /\ opc' = IF qi + 1 > Len(uniqueSearchQueries) THEN "byEmail" ELSE "byName"
    /\ UNCHANGED <<searchResult, res>>

\* Method 1 returning the first order any candidate names, whoever owns it
NameSearchFirstHit ==
    /\ opc = "byName"
    /\ UNCHANGED <<validatorVars, deliveryVars, usernameVars, handlerVars>>
    /\ LET query  == uniqueSearchQueries[qi]
           orders == NameSearch(store, query)
       IN  /\ calls' = Append(calls, Call("name", query, TRUE, orders))
           /\ IF Len(orders) > 0
              THEN /\ Return(Found(orders[1], emailMatches(orders[1], cleanEmail)))
                   /\ UNCHANGED <<qi, foundOrderWithWrongEmail>>
              ELSE /\ UNCHANGED foundOrderWithWrongEmail
                   /\ NextCandidate
    /\ UNCHANGED <<req, creds, store, cleanEmail, uniqueSearchQueries>>

\* Method 1 remembering an email match and going on to the next candidate
NameSearchKeepsSearching ==
    /\ opc = "byName"
    /\ UNCHANGED <<validatorVars, deliveryVars, usernameVars, handlerVars>>
    /\ LET query  == uniqueSearchQueries[qi]
           orders == NameSearch(store, query)
       IN  /\ calls' = Append(calls, Call("name", query, TRUE, orders))
           /\ IF Len(orders) > 0 /\ emailMatches(orders[1], cleanEmail)
                 /\ qi = Len(uniqueSearchQueries)
              THEN /\ Return(Found(orders[1], TRUE))
                   /\ UNCHANGED <<qi, foundOrderWithWrongEmail>>
              ELSE /\ foundOrderWithWrongEmail' =
                         IF Len(orders) > 0 THEN orders[1] ELSE foundOrderWithWrongEmail
                   /\ NextCandidate
    /\ UNCHANGED <<req, creds, store, cleanEmail, uniqueSearchQueries>>

\* Method 1, one candidate: the store answers the by-name lookup
NameSearchAnswered ==
    /\ opc = "byName"
    /\ UNCHANGED <<validatorVars, deliveryVars, usernameVars, handlerVars>>
    /\ LET query  == uniqueSearchQueries[qi]
           orders == NameSearch(store, query)
       IN  /\ calls' = Append(calls, Call("name", query, TRUE, orders))
           /\ IF Len(orders) > 0 /\ emailMatches(orders[1], cleanEmail)
              THEN /\ Return(Found(orders[1], TRUE))
                   /\ UNCHANGED <<qi, foundOrderWithWrongEmail>>
              ELSE /\ foundOrderWithWrongEmail' =
                         IF Len(orders) > 0 THEN orders[1] ELSE foundOrderWithWrongEmail
                   /\ NextCandidate
    /\ UNCHANGED <<req, creds, store, cleanEmail, uniqueSearchQueries>>

\* Method 1 with a failed lookup propagating out of findShopifyOrder to the
\* catch block of handleOrderVerification
NameSearchFailureThrown ==
    /\ opc = "byName"
    /\ UNCHANGED <<validatorVars, deliveryVars, usernameVars, handlerVars>>
    /\ calls' = Append(calls, Call("name", uniqueSearchQueries[qi], FALSE, <<>>))
    /\ res' = ErrorResponse(500, "Failed to verify order", Null)
    /\ opc' = "done"
    /\ UNCHANGED <<req, creds, store, cleanEmail, uniqueSearchQueries, qi,
                   foundOrderWithWrongEmail, searchResult>>

\* Method 1, one candidate: the lookup is answered non-2xx, or fetch throws
NameSearchFailed ==
    /\ opc = "byName"
    /\ UNCHANGED <<validatorVars, deliveryVars, usernameVars, handlerVars>>
    /\ calls' = Append(calls, Call("name", uniqueSearchQueries[qi], FALSE, <<>>))
    /\ NextCandidate
    /\ UNCHANGED <<req, creds, store, cleanEmail, uniqueSearchQueries,
                   foundOrderWithWrongEmail>>

\* Method 2: the store answers the by-email query
EmailSearchAnswered ==
    /\ opc = "byEmail"
    /\ UNCHANGED <<validatorVars, deliveryVars, usernameVars, handlerVars>>
    /\ LET orders   == EmailSearch(store, cleanEmail)
           matching == matchingOrders(orders, uniqueSearchQueries)
       IN  /\ calls' = Append(calls, Call("email", cleanEmail, TRUE, orders))
           /\ IF Len(matching) > 0
              THEN Return(Found(matching[1], TRUE))
              ELSE Return(wrongOwnerOrNull(foundOrderWithWrongEmail))
    /\ UNCHANGED <<req, creds, store, cleanEmail, uniqueSearchQueries, qi,
                   foundOrderWithWrongEmail>>

\* Method 2 with a failed by-email query tried a second time
EmailSearchFailedRetried ==
    /\ opc = "byEmail"
    /\ UNCHANGED <<validatorVars, deliveryVars, usernameVars, handlerVars>>
    /\ calls' = Append(calls, Call("email", cleanEmail, FALSE, <<>>))
    /\ IF calls # <<>> /\ calls[Len(calls)].kind = "email"
       THEN Return(wrongOwnerOrNull(foundOrderWithWrongEmail))
       ELSE UNCHANGED <<opc, searchResult, res>>
    /\ UNCHANGED <<req, creds, store, cleanEmail, uniqueSearchQueries, qi,
                   foundOrderWithWrongEmail>>

\* Method 2: the by-email query is answered non-2xx, or fetch throws
EmailSearchFailed ==
    /\ opc = "byEmail"
    /\ UNCHANGED <<validatorVars, deliveryVars, usernameVars, handlerVars>>
    /\ calls' = Append(calls, Call("email", cleanEmail, FALSE, <<>>))
    /\ Return(wrongOwnerOrNull(foundOrderWithWrongEmail))
    /\ UNCHANGED <<req, creds, store, cleanEmail, uniqueSearchQueries, qi,
                   foundOrderWithWrongEmail>>

---------------------------------------------------------------------------
(* saveToAirtable and handleDeliveryRegistration                            *)

OPERATION_TIMEOUT == 7000

VERCEL_TIMEOUT_LIMIT == 9000

\* setTimeout(() => controller.abort(), 3000)
ABORT_AFTER == 3000

\* discovery is tried only with more than this much of the budget left
DISCOVERY_MIN_REMAINING == 2000

priorityTableNames == <<"AG Orders", "Orders", "Main", "Deliveries", "Table 1">>

\* `DEL_${timestamp}_${random}`
generateDeliveryId(timestamp, random) == [timestamp |-> timestamp, random |-> random]

NoId == [timestamp |-> -1, random |-> "none"]

\* what Math.random().toString(36).substr(2, 6).toUpperCase() may give
Randoms == {"K3X9QA", "7ZP0LM"}

\* how long the sink takes to answer a request it answers in time
ResponseTimes == {500, 2500}

Min(a, b) == IF a <= b THEN a ELSE b

DeliveryResponse(status, success, id, canContinue, timing) ==
    [status |-> status, success |-> success, registrationId |-> id,
     canContinue |-> canContinue, timing |-> timing]

\* the body of `catch (timeoutError)` around Promise.race
FallbackResponse(elapsed, random) ==
    DeliveryResponse(200, TRUE, generateDeliveryId(elapsed, random), TRUE, elapsed)

\* a sink event at time t is possible: time does not run backwards, and while
\* the handler still waits its timer (due at VERCEL_TIMEOUT_LIMIT) has not fired
MayHappenAt(t) == t >= now /\ (dpc = "waiting" => t <= VERCEL_TIMEOUT_LIMIT)

\* saveToAirtable returns at time t and the handler answers 200, whether or not
\* it has answered already
SaveResolvesAnswersAgain(t) ==
    /\ spc' = "resolved"
    /\ responses' = Append(responses,
                           DeliveryResponse(200, TRUE, registrationId, FALSE, t))
    /\ dpc' = "done"

\* saveToAirtable returns at time t; the handler, if it still waits, answers 200
SaveResolves(t) ==
    /\ spc' = "resolved"
    /\ IF dpc = "waiting"
       THEN /\ responses' = Append(responses,
                                   DeliveryResponse(200, TRUE, registrationId, FALSE, t))
            /\ dpc' = "done"
       ELSE UNCHANGED <<responses, dpc>>

\* saveToAirtable throws at time t; Promise.race rejects and the handler, if it
\* still waits, runs the catch around the race
SaveRejects(t) ==
    /\ spc' = "rejected"
    /\ IF dpc = "waiting"
       THEN /\ \E random \in Randoms :
                   responses' = Append(responses, FallbackResponse(t, random))
            /\ dpc' = "done"
       ELSE UNCHANGED <<responses, dpc>>

\* the attempt on priorityTableNames[ti] is over at time t without a return:
\* the loop goes on to the next table, or is left
NextTable(t) ==
    IF ti < Len(priorityTableNames) /\ ~(t > OPERATION_TIMEOUT)
    THEN /\ ti' = ti + 1
         /\ spc' = "attempt"
         /\ started' = t
         /\ UNCHANGED <<responses, dpc>>
    ELSE /\ UNCHANGED ti
         /\ IF OPERATION_TIMEOUT - t > DISCOVERY_MIN_REMAINING
            THEN /\ spc' = "discovery"
                 /\ started' = t
                 /\ UNCHANGED <<responses, dpc>>
            ELSE /\ SaveRejects(t)
                 /\ UNCHANGED started

\* the entry of the handler, up to the first sink request
handleDeliveryRegistration ==
    /\ dpc = "start"
    /\ UNCHANGED <<validatorVars, orderVars, usernameVars, handlerVars>>
    /\ UNCHANGED <<deliveryData, airtableConfigured, now, started, lastError, sink,
                   timedOut>>
    /\ IF ~deliveryData.order \/ ~deliveryData.roblox
       THEN /\ responses' = Append(responses, DeliveryResponse(400, FALSE, NoId, FALSE, now))
            /\ dpc' = "done"
            /\ UNCHANGED <<spc, ti, registrationId, timer>>
       ELSE IF ~airtableConfigured
       \* saveToAirtable throws before anything else; the race rejects at once
       THEN /\ spc' = "rejected"
            /\ timer' = "armed"
            /\ \E random \in Randoms :
                   responses' = Append(responses, FallbackResponse(now, random))
            /\ dpc' = "done"
            /\ UNCHANGED <<ti, registrationId>>
       ELSE /\ \E random \in Randoms :
                   registrationId' = generateDeliveryId(now, random)
            /\ ti' = 1
            /\ spc' = "attempt"
            /\ timer' = "armed"
            /\ dpc' = "waiting"
            /\ UNCHANGED responses

Record(table, id) == [table |-> table, registrationId |-> id]

\* the sink answers 2xx: it has created the record, and saveToAirtable returns
TableSaved ==
    /\ spc = "attempt"
    /\ UNCHANGED <<validatorVars, orderVars, usernameVars, handlerVars>>
    /\ \E d \in ResponseTimes :
          /\ MayHappenAt(started + d)
          /\ now' = started + d
          /\ sink' = Append(sink, Record(priorityTableNames[ti], registrationId))
          /\ SaveResolves(started + d)
    /\ UNCHANGED <<deliveryData, airtableConfigured, started, ti, registrationId,
                   lastError, timedOut, timer>>

\* the sink answers non-2xx (403, 404 or another status): no record, next table
TableRefused ==
    /\ spc = "attempt"
    /\ UNCHANGED <<validatorVars, orderVars, usernameVars, handlerVars>>
    /\ \E d \in ResponseTimes :
          /\ MayHappenAt(started + d)
          /\ now' = started + d
          /\ NextTable(started + d)
    /\ lastError' = priorityTableNames[ti]
    /\ UNCHANGED <<deliveryData, airtableConfigured, registrationId, sink, timedOut,
                   timer>>

\* no answer within ABORT_AFTER: the request is aborted on the client, whether
\* or not the sink has already created the record; next table
TableAborted ==
    /\ spc = "attempt"
    /\ UNCHANGED <<validatorVars, orderVars, usernameVars, handlerVars>>
    /\ MayHappenAt(started + ABORT_AFTER)
    /\ now' = started + ABORT_AFTER
    /\ \E created \in BOOLEAN :
          sink' = IF created
                  THEN Append(sink, Record(priorityTableNames[ti], registrationId))
                  ELSE sink
    /\ NextTable(started + ABORT_AFTER)
    /\ lastError' = priorityTableNames[ti]
    /\ UNCHANGED <<deliveryData, airtableConfigured, registrationId, timedOut, timer>>

\* fetch throws (connection refused or reset): the request may or may not have
\* reached the sink; next table
TableNetworkError ==
    /\ spc = "attempt"
    /\ UNCHANGED <<validatorVars, orderVars, usernameVars, handlerVars>>
    /\ \E d \in ResponseTimes, created \in BOOLEAN :
          /\ MayHappenAt(started + d)
          /\ now' = started + d
          /\ sink' = IF created
                     THEN Append(sink, Record(priorityTableNames[ti], registrationId))
                     ELSE sink
          /\ NextTable(started + d)
    /\ lastError' = priorityTableNames[ti]
    /\ UNCHANGED <<deliveryData, airtableConfigured, registrationId, timedOut, timer>>

\* a table of the base that is not in priorityTableNames
DiscoveredTable == "Registrations"

DISCOVERED_MIN_REMAINING == 1000

DISCOVERY_ABORT_AFTER == 2000

\* what the table-discovery request may end with: no answer (aborted, non-2xx
\* or a thrown fetch), the priority tables only, or a table outside them
DiscoveryOutcomes == {"failed", "known tables", "new table"}

\* the table-discovery request ends, answered or aborted after
\* min(remainingTime - 1000, 2000); with a new table and more than a second
\* left tableName becomes newTables[0] (ti past the priority list), but the
\* block that follows is a comment: nothing is saved and saveToAirtable throws
Discovery ==
    /\ spc = "discovery"
    /\ UNCHANGED <<validatorVars, orderVars, usernameVars, handlerVars>>
    /\ LET remainingTime == OPERATION_TIMEOUT - started
       IN  \E d \in {Min(dd, Min(remainingTime - DISCOVERED_MIN_REMAINING, DISCOVERY_ABORT_AFTER))
                        : dd \in ResponseTimes},
              outcome \in DiscoveryOutcomes :
              /\ MayHappenAt(started + d)
              /\ now' = started + d
              /\ ti' = IF /\ outcome = "new table"
                          /\ started + d < OPERATION_TIMEOUT - DISCOVERED_MIN_REMAINING
                       THEN Len(priorityTableNames) + 1
                       ELSE ti
              /\ SaveRejects(started + d)
    /\ UNCHANGED <<deliveryData, airtableConfigured, started, registrationId,
                   lastError, sink, timedOut, timer>>

\* the handler's timer fires while saveToAirtable is still pending: the race
\* rejects, the handler answers, and saveToAirtable goes on
Timeout ==
    /\ dpc = "waiting"
    /\ spc = "attempt"
    /\ UNCHANGED <<validatorVars, orderVars, usernameVars, handlerVars>>
    /\ started + ABORT_AFTER >= VERCEL_TIMEOUT_LIMIT
    /\ now' = VERCEL_TIMEOUT_LIMIT
    /\ timedOut' = TRUE
    /\ timer' = "fired"
    /\ \E random \in Randoms :
          responses' = Append(responses, FallbackResponse(VERCEL_TIMEOUT_LIMIT, random))
    /\ dpc' = "done"
    /\ UNCHANGED <<deliveryData, airtableConfigured, spc, started, ti, registrationId,
                   lastError, sink>>

\* the timer, never cleared, fires after saveToAirtable has settled and the
\* handler has answered: the rejection of timeoutPromise goes to the settled
\* race, which ignores it
TimeoutAfterResponse ==
    /\ dpc = "done"
    /\ timer = "armed"
    /\ spc \in {"resolved", "rejected"}
    /\ UNCHANGED <<validatorVars, orderVars, usernameVars, handlerVars>>
    /\ now' = VERCEL_TIMEOUT_LIMIT
    /\ timer' = "fired"
    /\ UNCHANGED <<deliveryData, airtableConfigured, dpc, spc, started, ti,
                   registrationId, lastError, sink, timedOut, responses>>

---------------------------------------------------------------------------
(* handleUsernameVerification                                               *)

\* the characters /^[a-zA-Z0-9_]+$/ admits
WordChars ==
    {"a", "b", "c", "d", "e", "f", "g", "h", "i", "j", "k", "l", "m", "n", "o", "p",
     "q", "r", "s", "t", "u", "v", "w", "x", "y", "z",
     "A", "B", "C", "D", "E", "F", "G", "H", "I", "J", "K", "L", "M", "N", "O", "P",
     "Q", "R", "S", "T", "U", "V", "W", "X", "Y", "Z",
     "0", "1", "2", "3", "4", "5", "6", "7", "8", "9", "_"}

\* /^[a-zA-Z0-9_]+$/.test(s)
usernameRegex(s) == Len(s) > 0 /\ \A i \in 1..Len(s) : s[i] \in WordChars

MIN_USERNAME == 3

MAX_USERNAME == 20

SearchLimit == 10

NoUser == [id |-> -1, name |-> <<>>, former |-> <<>>]

\* POST users.roblox.com/v1/usernames/users { usernames: [name] }: the account
\* that has this name, or that had it before being renamed, compared without case
UsernameLookup(accounts, name) ==
    FirstN(SelectSeq(accounts,
                     LAMBDA u : \/ ToLowerCase(u.name) = ToLowerCase(name)
                                \/ (u.former # <<>>
                                    /\ ToLowerCase(u.former) = ToLowerCase(name))),
           1)

\* GET users.roblox.com/v1/users/search?keyword=...&limit=10: the accounts whose
\* name contains the keyword, or that once had it as their name
UserSearch(accounts, keyword) ==
    FirstN(SelectSeq(accounts,
                     LAMBDA u : \/ Includes(ToLowerCase(u.name), ToLowerCase(keyword))
                                \/ (u.former # <<>>
                                    /\ ToLowerCase(u.former) = ToLowerCase(keyword))),
           SearchLimit)

\* user.name && user.name.toLowerCase() === cleanUsername.toLowerCase()
nameMatches(u, cleanUsername) ==
    u.name # <<>> /\ ToLowerCase(u.name) = ToLowerCase(cleanUsername)

\* userSearchData.data.find(...): the first account of the list that matches
exactMatch(users, cleanUsername) ==
    LET hits == SelectSeq(users, LAMBDA u : nameMatches(u, cleanUsername))
    IN  IF hits = <<>> THEN NoUser ELSE hits[1]

\* the headshot URL built from the id (its cache-busting v parameter left out),
\* and the URL the thumbnails API gives for the id
ConstructedAvatar(id) == [from |-> "www.roblox.com/headshot-thumbnail", userId |-> id]

ThumbnailAvatar(id) == [from |-> "thumbnails.roblox.com", userId |-> id]

NoUsernameResponse ==
    [status |-> 0, error |-> Null, userId |-> <<>>, username |-> <<>>,
     avatarUrl |-> Null, method |-> Null]

UsernameError(status, error) ==
    [status |-> status, error |-> error, userId |-> <<>>, username |-> <<>>,
     avatarUrl |-> Null, method |-> Null]

UsernameFound(u, avatarUrl, via) ==
    [status |-> 200, error |-> Null, userId |-> numberToString(u.id),
     username |-> u.name, avatarUrl |-> avatarUrl, method |-> via]

UCall(api, ok, cause) == [api |-> api, ok |-> ok, cause |-> cause]

\* why a call to the identity provider fails: 429, or 5xx / no connection
FailureCauses == {"rate_limited", "unavailable"}

UsernameAnswer(response) ==
    /\ ures' = response
    /\ upc' = "done"

\* the entry of the function going to the keyword search first
handleUsernameVerificationSearchFirst ==
    /\ upc = "start"
    /\ UNCHANGED <<validatorVars, orderVars, deliveryVars, handlerVars>>
    /\ UNCHANGED <<username, directory, matched, method, ucalls>>
    /\ IF ~Truthy(username) \/ username.t # "string" \/ Trim(username.s) = <<>>
       THEN UsernameAnswer(UsernameError(400, "Username is required"))
       ELSE IF Len(Trim(username.s)) < MIN_USERNAME \/ Len(Trim(username.s)) > MAX_USERNAME
       THEN UsernameAnswer(UsernameError(400, "Username must be between 3-20 characters"))
       ELSE IF ~usernameRegex(Trim(username.s))
       THEN UsernameAnswer(UsernameError(400,
                "Username can only contain letters, numbers, and underscores"))
       ELSE /\ upc' = "search"
            /\ UNCHANGED ures

\* the entry of the function, up to the first identity-provider call
handleUsernameVerification ==
    /\ upc = "start"
    /\ UNCHANGED <<validatorVars, orderVars, deliveryVars, handlerVars>>
    /\ UNCHANGED <<username, directory, matched, method, ucalls>>
    /\ IF ~Truthy(username) \/ username.t # "string" \/ Trim(username.s) = <<>>
       THEN UsernameAnswer(UsernameError(400, "Username is required"))
       ELSE IF Len(Trim(username.s)) < MIN_USERNAME \/ Len(Trim(username.s)) > MAX_USERNAME
       THEN UsernameAnswer(UsernameError(400, "Username must be between 3-20 characters"))
       ELSE IF ~usernameRegex(Trim(username.s))
       THEN UsernameAnswer(UsernameError(400,
                "Username can only contain letters, numbers, and underscores"))
       ELSE /\ upc' = "primary"
            /\ UNCHANGED ures

\* Method 1: the username-to-id lookup is answered
PrimaryAnswered ==
    /\ upc = "primary"
    /\ UNCHANGED <<validatorVars, orderVars, deliveryVars, handlerVars>>
    /\ LET data == UsernameLookup(directory, Trim(username.s))
       IN  /\ ucalls' = Append(ucalls, UCall("usernames", TRUE, Null))
           /\ IF Len(data) > 0 /\ nameMatches(data[1], Trim(username.s))
              THEN /\ matched' = data[1]
                   /\ method' = "username-to-id-api"
                   /\ upc' = "avatar"
              ELSE /\ upc' = "search"
                   /\ UNCHANGED <<matched, method>>
    /\ UNCHANGED <<username, directory, ures>>

\* Method 1: the lookup is answered non-2xx, or fetch throws
PrimaryFailed ==
    /\ upc = "primary"
    /\ UNCHANGED <<validatorVars, orderVars, deliveryVars, handlerVars>>
    /\ \E cause \in FailureCauses :
          ucalls' = Append(ucalls, UCall("usernames", FALSE, cause))
    /\ upc' = "search"
    /\ UNCHANGED <<username, directory, matched, method, ures>>

\* Method 2: the keyword search is answered
SearchAnswered ==
    /\ upc = "search"
    /\ UNCHANGED <<validatorVars, orderVars, deliveryVars, handlerVars>>
    /\ LET hit == exactMatch(UserSearch(directory, Trim(username.s)), Trim(username.s))
       IN  /\ ucalls' = Append(ucalls, UCall("search", TRUE, Null))
           /\ IF hit # NoUser
              THEN /\ matched' = hit
                   /\ method' = "search-api"
                   /\ upc' = "avatar"
                   /\ UNCHANGED ures
              ELSE /\ UsernameAnswer(UsernameError(404, "User not found"))
                   /\ UNCHANGED <<matched, method>>
    /\ UNCHANGED <<username, directory>>

\* Method 2: the search is answered non-2xx, or fetch throws
SearchFailed ==
    /\ upc = "search"
    /\ UNCHANGED <<validatorVars, orderVars, deliveryVars, handlerVars>>
    /\ \E cause \in FailureCauses :
          ucalls' = Append(ucalls, UCall("search", FALSE, cause))
    /\ UsernameAnswer(UsernameError(404, "User not found"))
    /\ UNCHANGED <<username, directory, matched, method>>

\* the thumbnails lookup is answered, with an image URL or without one
AvatarAnswered ==
    /\ upc = "avatar"
    /\ UNCHANGED <<validatorVars, orderVars, deliveryVars, handlerVars>>
    /\ \E hasImageUrl \in BOOLEAN :
          /\ ucalls' = Append(ucalls, UCall("thumbnails", TRUE,
                                            IF hasImageUrl THEN Null ELSE "no imageUrl"))
          /\ UsernameAnswer(UsernameFound(matched,
                                          IF hasImageUrl THEN ThumbnailAvatar(matched.id)
                                          ELSE ConstructedAvatar(matched.id),
                                          method))
    /\ UNCHANGED <<username, directory, matched, method>>

\* the thumbnails lookup is answered non-2xx, or fetch throws
AvatarFailed ==
    /\ upc = "avatar"
    /\ UNCHANGED <<validatorVars, orderVars, deliveryVars, handlerVars>>
    /\ \E cause \in FailureCauses :
          ucalls' = Append(ucalls, UCall("thumbnails", FALSE, cause))
    /\ UsernameAnswer(UsernameFound(matched, ConstructedAvatar(matched.id), method))
    /\ UNCHANGED <<username, directory, matched, method>>

---------------------------------------------------------------------------
(* The request a top-level handler receives *)

\* req.body: nothing, a string, or an object with these properties (the
\* destructuring of a string gives undefined for each of them)
Body(t, action, orderNumber, email, username_, deliveryData_) ==
    [t |-> t, action |-> action, orderNumber |-> orderNumber, email |-> email,
     username |-> username_, deliveryData |-> deliveryData_]

NoBody == Body("undefined", JsUndefined, JsUndefined, JsUndefined, JsUndefined, JsUndefined)

Request(httpMethod, body) == [method |-> httpMethod, body |-> body]

---------------------------------------------------------------------------
(* The username-only handler of src/verify.js *)

\* GET users.roblox.com/v1/users/get-by-username?username=...: the account of
\* that name, compared without case
GetByUsername(accounts, name) ==
    FirstN(SelectSeq(accounts, LAMBDA u : ToLowerCase(u.name) = ToLowerCase(name)), 1)

\* the 200 body of src/verify.js; userId is sent as a JSON number, written here
\* by its digits
LegacyFound(u, avatarUrl) ==
    [status |-> 200, error |-> Null, userId |-> numberToString(u.id),
     username |-> u.name, avatarUrl |-> avatarUrl, method |-> Null]

\* the handler up to its first fetch; reading a property of a missing body
\* throws outside the try block, and nothing catches it
verifyHandler ==
    /\ upc = "verify"
    /\ UNCHANGED <<validatorVars, orderVars, deliveryVars, handlerVars>>
    /\ UNCHANGED <<directory, matched, method, ucalls>>
    /\ IF request.method # "POST"
       THEN /\ UsernameAnswer(UsernameError(405, "Method not allowed"))
            /\ UNCHANGED username
       ELSE IF request.body.t = "undefined"
       THEN /\ upc' = "threw"
            /\ UNCHANGED <<username, ures>>
       ELSE /\ username' = request.body.username
            /\ IF ~Truthy(request.body.username)
               THEN UsernameAnswer(UsernameError(400, "Username required"))
               ELSE /\ upc' = "getByUsername"
                    /\ UNCHANGED ures

\* the get-by-username lookup is answered 2xx
GetByUsernameAnswered ==
    /\ upc = "getByUsername"
    /\ UNCHANGED <<validatorVars, orderVars, deliveryVars, handlerVars>>
    /\ LET data == GetByUsername(directory, username.s)
       IN  /\ ucalls' = Append(ucalls, UCall("get-by-username", TRUE, Null))
           /\ IF data = <<>>
              THEN /\ UsernameAnswer(UsernameError(404, "User not found"))
                   /\ UNCHANGED matched
              ELSE /\ matched' = data[1]
                   /\ upc' = "headshot"
                   /\ UNCHANGED ures
    /\ UNCHANGED <<username, directory, method>>

\* the lookup is answered non-2xx, or fetch throws into the catch block
GetByUsernameFailed ==
    /\ upc = "getByUsername"
    /\ UNCHANGED <<validatorVars, orderVars, deliveryVars, handlerVars>>
    /\ \E cause \in FailureCauses :
          ucalls' = Append(ucalls, UCall("get-by-username", FALSE, cause))
    /\ \E error \in {"Failed fetching user data from Roblox", "Internal Server Error"} :
          UsernameAnswer(UsernameError(500, error))
    /\ UNCHANGED <<username, directory, matched, method>>

\* the avatar-headshot lookup is answered 2xx, with an image URL or without one
HeadshotAnswered ==
    /\ upc = "headshot"
    /\ UNCHANGED <<validatorVars, orderVars, deliveryVars, handlerVars>>
    /\ \E hasImageUrl \in BOOLEAN :
          /\ ucalls' = Append(ucalls, UCall("thumbnails", TRUE,
                                            IF hasImageUrl THEN Null ELSE "no imageUrl"))
          /\ UsernameAnswer(IF hasImageUrl
                            THEN LegacyFound(matched, ThumbnailAvatar(matched.id))
                            ELSE UsernameError(500, "Avatar not found"))
    /\ UNCHANGED <<username, directory, matched, method>>

\* the avatar-headshot lookup is answered non-2xx, or fetch throws
HeadshotFailed ==
    /\ upc = "headshot"
    /\ UNCHANGED <<validatorVars, orderVars, deliveryVars, handlerVars>>
    /\ \E cause \in FailureCauses :
          ucalls' = Append(ucalls, UCall("thumbnails", FALSE, cause))
    /\ \E error \in {"Failed fetching avatar data from Roblox", "Internal Server Error"} :
          UsernameAnswer(UsernameError(500, error))
    /\ UNCHANGED <<username, directory, matched, method>>

---------------------------------------------------------------------------
(* The username handler of src/unnamed/part_003 (lines 131-315): the keyword *)
(* search of the users API, then the profile redirect, then the scraping of  *)
(* the search page                                                           *)

\* the 200 body of the profile-redirect and search-scraping methods: the id
\* read from the URL, and the handle as the caller typed it
FoundById(id, cleanUsername, via) ==
    [status |-> 200, error |-> Null, userId |-> numberToString(id),
     username |-> cleanUsername, avatarUrl |-> ConstructedAvatar(id), method |-> via]

\* the handler up to its first fetch
scrapingHandler ==
    /\ upc = "scraping"
    /\ UNCHANGED <<validatorVars, orderVars, deliveryVars, handlerVars>>
    /\ UNCHANGED <<directory, matched, method, ucalls>>
    /\ IF request.method = "OPTIONS"
       THEN /\ UsernameAnswer([NoUsernameResponse EXCEPT !.status = 200])
            /\ UNCHANGED username
       ELSE IF request.method # "POST"
       THEN /\ UsernameAnswer(UsernameError(405, "Method Not Allowed"))
            /\ UNCHANGED username
       ELSE IF request.body.t = "undefined"
       \* the destructuring throws inside the try block
       THEN /\ UsernameAnswer(UsernameError(500, "Internal server error"))
            /\ UNCHANGED username
       ELSE /\ username' = request.body.username
            /\ LET v == request.body.username
               IN  IF ~Truthy(v) \/ v.t # "string" \/ Trim(v.s) = <<>>
                   THEN UsernameAnswer(UsernameError(400, "Username is required"))
                   ELSE IF Len(Trim(v.s)) < MIN_USERNAME \/ Len(Trim(v.s)) > MAX_USERNAME
                   THEN UsernameAnswer(UsernameError(400,
                            "Username must be between 3-20 characters"))
                   ELSE IF ~usernameRegex(Trim(v.s))
                   THEN UsernameAnswer(UsernameError(400,
                            "Username can only contain letters, numbers, and underscores"))
                   ELSE /\ upc' = "keywordSearch"
                        /\ UNCHANGED ures

\* Method 1: the keyword search of the users API is answered 2xx
KeywordSearchAnswered ==
    /\ upc = "keywordSearch"
    /\ UNCHANGED <<validatorVars, orderVars, deliveryVars, handlerVars>>
    /\ LET hit == exactMatch(UserSearch(directory, Trim(username.s)), Trim(username.s))
       IN  /\ ucalls' = Append(ucalls, UCall("search", TRUE, Null))
           /\ IF hit # NoUser
              THEN /\ matched' = hit
                   /\ method' = "roblox-api"
                   /\ upc' = "avatar"
              ELSE /\ upc' = "profile"
                   /\ UNCHANGED <<matched, method>>
    /\ UNCHANGED <<username, directory, ures>>

\* Method 1: the search is answered non-2xx, or fetch throws
KeywordSearchFailed ==
    /\ upc = "keywordSearch"
    /\ UNCHANGED <<validatorVars, orderVars, deliveryVars, handlerVars>>
    /\ \E cause \in FailureCauses :
          ucalls' = Append(ucalls, UCall("search", FALSE, cause))
    /\ upc' = "profile"
    /\ UNCHANGED <<username, directory, matched, method, ures>>

\* Method 2: www.roblox.com/users/profile?username=... is answered, with a
\* redirect to /users/<id>/profile when an account has that name
ProfileAnswered ==
    /\ upc = "profile"
    /\ UNCHANGED <<validatorVars, orderVars, deliveryVars, handlerVars>>
    /\ LET data == GetByUsername(directory, Trim(username.s))
       IN  /\ ucalls' = Append(ucalls, UCall("profile", TRUE, Null))
           /\ IF data # <<>>
              THEN UsernameAnswer(FoundById(data[1].id, Trim(username.s),
                                            "profile-redirect"))
              ELSE /\ upc' = "searchPage"
                   /\ UNCHANGED ures
    /\ UNCHANGED <<username, directory, matched, method>>

\* Method 2: fetch throws
ProfileFailed ==
    /\ upc = "profile"
    /\ UNCHANGED <<validatorVars, orderVars, deliveryVars, handlerVars>>
    /\ \E cause \in FailureCauses :
          ucalls' = Append(ucalls, UCall("profile", FALSE, cause))
    /\ upc' = "searchPage"
    /\ UNCHANGED <<username, directory, matched, method, ures>>

\* Method 3: www.roblox.com/search/users?keyword=... is answered 2xx with a
\* page that is blocked, or that lists the accounts the keyword finds; the
\* first /users/<id>/profile link of the page is taken
SearchPageAnswered ==
    /\ upc = "searchPage"
    /\ UNCHANGED <<validatorVars, orderVars, deliveryVars, handlerVars>>
    /\ \E blocked \in BOOLEAN :
          LET listed == UserSearch(directory, Trim(username.s))
          IN  /\ ucalls' = Append(ucalls, UCall("search-page", TRUE,
                                                IF blocked THEN "captcha" ELSE Null))
              /\ IF ~blocked /\ listed # <<>>
                 THEN UsernameAnswer(FoundById(listed[1].id, Trim(username.s),
                                               "search-scraping"))
                 ELSE UsernameAnswer(UsernameError(404, "User not found"))
    /\ UNCHANGED <<username, directory, matched, method>>

\* Method 3: the page is answered non-2xx, or fetch throws
SearchPageFailed ==
    /\ upc = "searchPage"
    /\ UNCHANGED <<validatorVars, orderVars, deliveryVars, handlerVars>>
    /\ \E cause \in FailureCauses :
          ucalls' = Append(ucalls, UCall("search-page", FALSE, cause))
    /\ UsernameAnswer(UsernameError(404, "User not found"))
    /\ UNCHANGED <<username, directory, matched, method>>

---------------------------------------------------------------------------
(* The mock order verification of src/unnamed/part_001 *)

MockOrder(orderNumber, email) == [orderNumber |-> orderNumber, email |-> email]

mockOrders ==
    << MockOrder(<<"#", "1", "2", "2", "2">>, <<"t", "e", "s", "t", "@", "w", "o", "o", ".", "c", "o", "m">>),
       MockOrder(<<"1", "2", "2", "2">>, <<"t", "e", "s", "t", "@", "w", "o", "o", ".", "c", "o", "m">>),
       MockOrder(<<"#", "1", "0", "0", "1">>, <<"c", "u", "s", "t", "o", "m", "e", "r", "@", "e", "x", "a", "m", "p", "l", "e", ".", "c", "o", "m">>),
       MockOrder(<<"A", "F", "1", "2", "3", "4">>, <<"u", "s", "e", "r", "@", "g", "m", "a", "i", "l", ".", "c", "o", "m">>) >>

\* mockOrders.find(order => orderMatch && emailMatch)
matchingOrder(normalizedOrderNumber, email) ==
    SelectSeq(mockOrders,
              LAMBDA o : /\ StripPrefix(o.orderNumber, HASH) = normalizedOrderNumber
                         /\ ToLowerCase(o.email) = email)

\* handleOrderVerification of part_001
mockOrderVerification ==
    /\ opc = "mock"
    /\ UNCHANGED <<validatorVars, deliveryVars, usernameVars, handlerVars>>
    /\ UNCHANGED <<req, creds, store>>
    /\ IF ~Truthy(req.orderNumber) \/ ~Truthy(req.email)
       THEN Reject(ErrorResponse(400, "Order number and email are required", Null))
       ELSE IF req.orderNumber.t # "string" \/ req.email.t # "string"
       \* .trim() or .toLowerCase() of a non-string throws; handler's catch answers
       THEN Reject(ErrorResponse(500, "Internal server error", Null))
       ELSE IF ~emailRegex(Trim(ToLowerCase(req.email.s)))
       THEN Reject(ErrorResponse(400, "Invalid email format", Null))
       ELSE LET found == matchingOrder(StripPrefix(Trim(req.orderNumber.s), HASH),
                                       Trim(ToLowerCase(req.email.s)))
            IN  IF found = <<>>
                THEN Reject(ErrorResponse(404, "Order not found or email does not match",
                               "Please check your order number and email address"))
                ELSE Reject([status |-> 200, error |-> Null, details |-> Null,
                             verified |-> TRUE, orderNumber |-> found[1].orderNumber,
                             email |-> Trim(ToLowerCase(req.email.s)),
                             interpolated |-> <<>>])

---------------------------------------------------------------------------
(* The order verification of src/unnamed/part_005: findShopifyOrder looks   *)
(* the candidates up by name and has no by-email query                      *)

\* validateOrderForDelivery of part_005: payment, cancellation, fulfilment
validateOrderWithoutRefunds(o) ==
    IF o.financial_status # "paid" /\ o.financial_status # "partially_paid"
    THEN Invalid("Order payment not confirmed")
    ELSE IF o.cancelled_at # Null
    THEN Invalid("Order has been cancelled")
    ELSE IF o.fulfillment_status = "fulfilled"
    THEN Invalid("Order has already been fulfilled")
    ELSE Valid

\* findShopifyOrder of part_005 returns `result`; the handler answers
ReturnByNameOnly(result) ==
    /\ searchResult' = result
    /\ opc' = "done"
    /\ res' =
          IF ~result.found
          THEN ErrorResponse(404, "Order not found",
                             "Please check your order number and try again")
          ELSE IF ~result.emailMatch
          THEN ErrorResponse(400, "Email does not match the order number",
                             "The order number exists but is associated with a different email address. Please check your email and try again.")
          ELSE LET validationResult == validateOrderWithoutRefunds(result.order)
               IN  IF ~validationResult.valid
                   THEN ErrorResponse(400, validationResult.reason, Null)
                   ELSE Verified(result.order, cleanEmail)

\* the loop moves to the next candidate; after the last one the remembered
\* wrong-owner order, or null, is returned
NextCandidateByNameOnly(wrong) ==
    IF qi + 1 > Len(uniqueSearchQueries)
    THEN /\ ReturnByNameOnly(wrongOwnerOrNull(wrong))
         /\ UNCHANGED qi
    ELSE /\ qi' = qi + 1
         /\ UNCHANGED <<opc, searchResult, res>>

\* handleOrderVerification of part_005, up to the first order-store call
orderVerificationByNameOnly ==
    /\ opc = "nameOnlyStart"
    /\ UNCHANGED <<validatorVars, deliveryVars, usernameVars, handlerVars>>
    /\ UNCHANGED <<req, creds, store>>
    /\ IF ~Truthy(req.orderNumber) \/ ~Truthy(req.email)
       THEN Reject(ErrorResponse(400, "Order number and email are required", Null))
       ELSE IF req.orderNumber.t # "string" \/ req.email.t # "string"
       \* .trim() or .toLowerCase() of a non-string throws; handler's catch answers
       THEN Reject(ErrorResponse(500, "Internal server error", Null))
       ELSE IF ~emailRegex(Trim(ToLowerCase(req.email.s)))
       THEN Reject(ErrorResponse(400, "Invalid email format", Null))
       ELSE IF ~creds
       THEN Reject(ErrorResponse(500, "Server configuration error", Null))
       ELSE /\ cleanEmail' = Trim(ToLowerCase(req.email.s))
            /\ uniqueSearchQueries' = Unique(searchQueries(Trim(req.orderNumber.s)))
            /\ qi' = 1
            /\ opc' = "nameOnly"
            /\ UNCHANGED <<foundOrderWithWrongEmail, searchResult, calls, res>>

\* one candidate: the store answers the by-name lookup
NameOnlyAnswered ==
    /\ opc = "nameOnly"
    /\ UNCHANGED <<validatorVars, deliveryVars, usernameVars, handlerVars>>
    /\ LET query  == uniqueSearchQueries[qi]
           orders == NameSearch(store, query)
       IN  /\ calls' = Append(calls, Call("name", query, TRUE, orders))
           /\ IF Len(orders) > 0 /\ emailMatches(orders[1], cleanEmail)
              THEN /\ ReturnByNameOnly(Found(orders[1], TRUE))
                   /\ UNCHANGED <<qi, foundOrderWithWrongEmail>>
              ELSE /\ foundOrderWithWrongEmail' =
                         IF Len(orders) > 0 THEN orders[1] ELSE foundOrderWithWrongEmail
                   /\ NextCandidateByNameOnly(foundOrderWithWrongEmail')
    /\ UNCHANGED <<req, creds, store, cleanEmail, uniqueSearchQueries>>

\* one candidate: the lookup is answered non-2xx, or fetch throws
NameOnlyFailed ==
    /\ opc = "nameOnly"
    /\ UNCHANGED <<validatorVars, deliveryVars, usernameVars, handlerVars>>
    /\ calls' = Append(calls, Call("name", uniqueSearchQueries[qi], FALSE, <<>>))
    /\ NextCandidateByNameOnly(foundOrderWithWrongEmail)
    /\ UNCHANGED <<req, creds, store, cleanEmail, uniqueSearchQueries,
                   foundOrderWithWrongEmail>>

---------------------------------------------------------------------------
(* The order verification of src/unnamed/part_004: a connectivity test, then *)
(* findShopifyOrder with four search methods                                 *)

EnhancedNameLimit == 10

PageLimit == 50

PadWidth == 4

GraphqlCandidates == 3

\* s.padStart(n, '0')
RECURSIVE PadStart(_, _)
PadStart(str, n) == IF Len(str) >= n THEN str ELSE PadStart(<<"0">> \o str, n)

\* orderNumber.replace(/^(AG-|AF|#)/, '')
cleanOrderNum(orderNumber) == StripAny(orderNumber, <<AGDASH, AF, HASH>>)

enhancedSearchQueries(orderNumber) ==
    searchQueries(orderNumber)
    \o << cleanOrderNum(orderNumber),
          PadStart(cleanOrderNum(orderNumber), PadWidth),
          AGDASH \o PadStart(cleanOrderNum(orderNumber), PadWidth) >>

\* order.email?.toLowerCase() === email.toLowerCase()
sameEmail(o, email) == o.email # <<>> /\ ToLowerCase(o.email) = ToLowerCase(email)

\* the test of data.orders.find in Method 2
matchesByNumber(o, queries, bare, email) ==
    /\ \E k \in 1..Len(queries) : \/ o.name = queries[k]
                                   \/ numberToString(o.order_number) = bare
                                   \/ numberToString(o.order_number) = queries[k]
    /\ sameEmail(o, email)

\* the test of data.orders.find in Method 3
matchesByEmail(o, queries, bare) ==
    \E k \in 1..Len(queries) : \/ o.name = queries[k]
                                \/ numberToString(o.order_number) = bare
                                \/ (o.name # <<>> /\ Includes(o.name, bare))

\* the REST form Method 4 builds of a GraphQL node: no cancelled_at, no
\* fulfillment_status, no refunds, no order_number
restOrder(o) ==
    [o EXCEPT !.cancelled_at = Null, !.fulfillment_status = Null, !.refunds = <<>>]

\* findShopifyOrder of part_004 returns `result`; the handler answers
ReturnEnhanced(result) ==
    /\ searchResult' = result
    /\ opc' = "done"
    /\ res' =
          IF ~result.found
          THEN [ErrorResponse(404, "Order not found",
                              "No order found matching ... for email ... Please check both values and try again.")
                   EXCEPT !.interpolated = <<Trim(req.orderNumber.s), cleanEmail>>]
          ELSE IF ~result.emailMatch
          THEN [ErrorResponse(400, "Email does not match the order number",
                              "Order ... exists but is associated with email ..., not ... Please check your email and try again.")
                   EXCEPT !.interpolated = <<result.order.name, result.order.email, cleanEmail>>]
          ELSE LET validationResult == validateOrderForDelivery(result.order)
               IN  IF ~validationResult.valid
                   THEN ErrorResponse(400, validationResult.reason, Null)
                   ELSE Verified(result.order, cleanEmail)

\* handleOrderVerification of part_004, up to the connectivity test
enhancedOrderVerification ==
    /\ opc = "enhancedStart"
    /\ UNCHANGED <<validatorVars, deliveryVars, usernameVars, handlerVars>>
    /\ UNCHANGED <<req, creds, store>>
    /\ IF ~Truthy(req.orderNumber) \/ ~Truthy(req.email)
       THEN Reject(ErrorResponse(400, "Order number and email are required", Null))
       ELSE IF req.orderNumber.t # "string" \/ req.email.t # "string"
       \* .trim() or .toLowerCase() of a non-string throws; handler's catch answers
       THEN Reject(ErrorResponse(500, "Internal server error", Null))
       ELSE IF ~emailRegex(Trim(ToLowerCase(req.email.s)))
       THEN Reject(ErrorResponse(400, "Invalid email format", Null))
       ELSE IF ~creds
       THEN Reject(ErrorResponse(500, "Server configuration error",
                                 "Missing Shopify API credentials"))
       ELSE /\ cleanEmail' = Trim(ToLowerCase(req.email.s))
            /\ opc' = "shopTest"
            /\ UNCHANGED <<uniqueSearchQueries, qi, foundOrderWithWrongEmail,
                           searchResult, calls, res>>

\* the shop.json request is answered: 2xx, 401, 404 or another status; after
\* 2xx or another status findShopifyOrder is called
ShopTestAnswered ==
    /\ opc = "shopTest"
    /\ UNCHANGED <<validatorVars, deliveryVars, usernameVars, handlerVars>>
    /\ UNCHANGED <<req, creds, store, cleanEmail, foundOrderWithWrongEmail,
                   searchResult, calls>>
    /\ \E status \in {200, 401, 404, 503} :
          IF status = 401
          THEN /\ res' = ErrorResponse(500, "Invalid Shopify API credentials",
                                       "Please check your access token")
               /\ opc' = "done"
               /\ UNCHANGED <<uniqueSearchQueries, qi>>
          ELSE IF status = 404
          THEN /\ res' = ErrorResponse(500, "Invalid shop domain",
                                       "Please check your shop domain configuration")
               /\ opc' = "done"
               /\ UNCHANGED <<uniqueSearchQueries, qi>>
          ELSE /\ uniqueSearchQueries' =
                     Unique(enhancedSearchQueries(Trim(req.orderNumber.s)))
               /\ qi' = 1
               /\ opc' = "enhancedByName"
               /\ UNCHANGED res

\* fetch of shop.json throws: the catch block of the handler answers
ShopTestFailed ==
    /\ opc = "shopTest"
    /\ UNCHANGED <<validatorVars, deliveryVars, usernameVars, handlerVars>>
    /\ UNCHANGED <<req, creds, store, cleanEmail, uniqueSearchQueries, qi,
                   foundOrderWithWrongEmail, searchResult, calls>>
    /\ res' = ErrorResponse(500, "Failed to verify order", "Internal server error")
    /\ opc' = "done"

\* Method 1 moves to the next candidate, or leaves for Method 2
NextEnhancedCandidate ==
    /\ qi' = qi + 1
    /\ opc' = IF qi + 1 > Len(uniqueSearchQueries) THEN "byNumber" ELSE "enhancedByName"
    /\ UNCHANGED <<searchResult, res>>

\* Method 1, one candidate: the store answers the by-name lookup
EnhancedNameAnswered ==
    /\ opc = "enhancedByName"
    /\ UNCHANGED <<validatorVars, deliveryVars, usernameVars, handlerVars>>
    /\ LET query  == uniqueSearchQueries[qi]
           orders == FirstN(SelectSeq(store, LAMBDA o : o.name = query), EnhancedNameLimit)
       IN  /\ calls' = Append(calls, Call("name", query, TRUE, orders))
           /\ IF Len(orders) > 0 /\ sameEmail(orders[1], cleanEmail)
              THEN /\ ReturnEnhanced(Found(orders[1], TRUE))
                   /\ UNCHANGED <<qi, foundOrderWithWrongEmail>>
              ELSE /\ foundOrderWithWrongEmail' =
                         IF Len(orders) > 0 THEN orders[1] ELSE foundOrderWithWrongEmail
                   /\ NextEnhancedCandidate
    /\ UNCHANGED <<req, creds, store, cleanEmail, uniqueSearchQueries>>

\* Method 1, one candidate: the lookup is answered non-2xx, or fetch throws
EnhancedNameFailed ==
    /\ opc = "enhancedByName"
    /\ UNCHANGED <<validatorVars, deliveryVars, usernameVars, handlerVars>>
    /\ calls' = Append(calls, Call("name", uniqueSearchQueries[qi], FALSE, <<>>))
    /\ NextEnhancedCandidate
    /\ UNCHANGED <<req, creds, store, cleanEmail, uniqueSearchQueries,
                   foundOrderWithWrongEmail>>

\* Method 2: the store answers with its latest orders
ByNumberAnswered ==
    /\ opc = "byNumber"
    /\ UNCHANGED <<validatorVars, deliveryVars, usernameVars, handlerVars>>
    /\ LET orders   == FirstN(store, PageLimit)
           matching == SelectSeq(orders,
                           LAMBDA o : matchesByNumber(o, uniqueSearchQueries,
                                          cleanOrderNum(Trim(req.orderNumber.s)), cleanEmail))
       IN  /\ calls' = Append(calls, Call("list", <<>>, TRUE, orders))
           /\ IF Len(matching) > 0
              THEN ReturnEnhanced(Found(matching[1], TRUE))
              ELSE /\ opc' = "enhancedByEmail"
                   /\ UNCHANGED <<searchResult, res>>
    /\ UNCHANGED <<req, creds, store, cleanEmail, uniqueSearchQueries, qi,
                   foundOrderWithWrongEmail>>

\* Method 2: the request is answered non-2xx, or fetch throws
ByNumberFailed ==
    /\ opc = "byNumber"
    /\ UNCHANGED <<validatorVars, deliveryVars, usernameVars, handlerVars>>
    /\ calls' = Append(calls, Call("list", <<>>, FALSE, <<>>))
    /\ opc' = "enhancedByEmail"
    /\ UNCHANGED <<req, creds, store, cleanEmail, uniqueSearchQueries, qi,
                   foundOrderWithWrongEmail, searchResult, res>>

\* Method 3: the store answers the by-email query
EnhancedEmailAnswered ==
    /\ opc = "enhancedByEmail"
    /\ UNCHANGED <<validatorVars, deliveryVars, usernameVars, handlerVars>>
    /\ LET orders   == EmailSearch(store, cleanEmail)
           matching == SelectSeq(orders,
                           LAMBDA o : matchesByEmail(o, uniqueSearchQueries,
                                          cleanOrderNum(Trim(req.orderNumber.s))))
       IN  /\ calls' = Append(calls, Call("email", cleanEmail, TRUE, orders))
           /\ IF Len(matching) > 0
              THEN /\ ReturnEnhanced(Found(matching[1], TRUE))
                   /\ UNCHANGED qi
              ELSE /\ opc' = "graphql"
                   /\ qi' = 1
                   /\ UNCHANGED <<searchResult, res>>
    /\ UNCHANGED <<req, creds, store, cleanEmail, uniqueSearchQueries,
                   foundOrderWithWrongEmail>>

\* Method 3: the query is answered non-2xx, or fetch throws
EnhancedEmailFailed ==
    /\ opc = "enhancedByEmail"
    /\ UNCHANGED <<validatorVars, deliveryVars, usernameVars, handlerVars>>
    /\ calls' = Append(calls, Call("email", cleanEmail, FALSE, <<>>))
    /\ opc' = "graphql"
    /\ qi' = 1
    /\ UNCHANGED <<req, creds, store, cleanEmail, uniqueSearchQueries,
                   foundOrderWithWrongEmail, searchResult, res>>

\* Method 4 moves to the next of the first three candidates, or ends the
\* search with the remembered wrong-owner order or null
NextGraphqlCandidate ==
    IF qi + 1 > GraphqlCandidates \/ qi + 1 > Len(uniqueSearchQueries)
    THEN /\ ReturnEnhanced(wrongOwnerOrNull(foundOrderWithWrongEmail))
         /\ UNCHANGED qi
    ELSE /\ qi' = qi + 1
         /\ UNCHANGED <<opc, searchResult, res>>

\* Method 4, one candidate: the GraphQL query `name:<query> OR email:<email>`
\* is answered 2xx, or non-2xx
GraphqlAnswered ==
    /\ opc = "graphql"
    /\ UNCHANGED <<validatorVars, deliveryVars, usernameVars, handlerVars>>
    /\ \E ok \in BOOLEAN :
          LET query  == uniqueSearchQueries[qi]
              nodes  == IF ok
                        THEN FirstN(SelectSeq(store, LAMBDA o : o.name = query
                                                        \/ sameEmail(o, cleanEmail)),
                                    EnhancedNameLimit)
                        ELSE <<>>
              matching == SelectSeq(nodes, LAMBDA o : o.name = query
                                                      /\ sameEmail(o, cleanEmail))
          IN  /\ calls' = Append(calls, Call("graphql", query, ok, nodes))
              /\ IF Len(matching) > 0
                 THEN /\ ReturnEnhanced(Found(restOrder(matching[1]), TRUE))
                      /\ UNCHANGED qi
                 ELSE NextGraphqlCandidate
    /\ UNCHANGED <<req, creds, store, cleanEmail, uniqueSearchQueries,
                   foundOrderWithWrongEmail>>

\* Method 4: fetch throws; the catch block around the loop ends Method 4
GraphqlFailed ==
    /\ opc = "graphql"
    /\ UNCHANGED <<validatorVars, deliveryVars, usernameVars, handlerVars>>
    /\ calls' = Append(calls, Call("graphql", uniqueSearchQueries[qi], FALSE, <<>>))
    /\ ReturnEnhanced(wrongOwnerOrNull(foundOrderWithWrongEmail))
    /\ UNCHANGED <<req, creds, store, cleanEmail, uniqueSearchQueries, qi,
                   foundOrderWithWrongEmail>>

---------------------------------------------------------------------------
(* handler of src/api/verify.js: the method test, the test_airtable route   *)
(* and the routing of a request to one of the three operations              *)

VERIFY_ORDER == JsString(<<"v", "e", "r", "i", "f", "y", "_", "o", "r", "d", "e", "r">>)

VERIFY_USERNAME == JsString(<<"v", "e", "r", "i", "f", "y", "_", "u", "s", "e", "r", "n", "a", "m", "e">>)

REGISTER_DELIVERY == JsString(<<"r", "e", "g", "i", "s", "t", "e", "r", "_", "d", "e", "l", "i", "v", "e", "r", "y">>)

TEST_AIRTABLE == JsString(<<"t", "e", "s", "t", "_", "a", "i", "r", "t", "a", "b", "l", "e">>)

\* a deliveryData object, with or without its order and roblox parts, and with
\* or without all of order.orderNumber, order.email, roblox.username, roblox.userId
JsObject(hasOrder, hasRoblox, complete) ==
    [t |-> "object", s |-> <<>>, order |-> hasOrder, roblox |-> hasRoblox,
     complete |-> complete]

\* routing with the field-based detection tried before the action
RouteByFieldsFirst(b) ==
    IF Truthy(b.orderNumber) /\ Truthy(b.email) /\ ~Truthy(b.username)
    THEN "verify_order"
    ELSE IF Truthy(b.username) /\ ~Truthy(b.orderNumber) /\ ~Truthy(b.email)
    THEN "verify_username"
    ELSE IF b.action = VERIFY_ORDER /\ Truthy(b.orderNumber) /\ Truthy(b.email)
    THEN "verify_order"
    ELSE IF b.action = VERIFY_USERNAME /\ Truthy(b.username)
    THEN "verify_username"
    ELSE IF b.action = REGISTER_DELIVERY /\ Truthy(b.deliveryData)
    THEN "register_delivery"
    ELSE "none"

\* the operation the if-chain of the handler dispatches a body to
Route(b) ==
    IF b.action = VERIFY_ORDER /\ Truthy(b.orderNumber) /\ Truthy(b.email)
    THEN "verify_order"
    ELSE IF b.action = VERIFY_USERNAME /\ Truthy(b.username)
    THEN "verify_username"
    ELSE IF b.action = REGISTER_DELIVERY /\ Truthy(b.deliveryData)
    THEN "register_delivery"
    ELSE IF Truthy(b.orderNumber) /\ Truthy(b.email) /\ ~Truthy(b.username)
    THEN "verify_order"
    ELSE IF Truthy(b.username) /\ ~Truthy(b.orderNumber) /\ ~Truthy(b.email)
    THEN "verify_username"
    ELSE "none"

\* a response of the handler; apiKeyPrefix is the config.apiKeyPrefix of its
\* body, empty when the body has none
HandlerResponse(status, error, body) ==
    [status |-> status, error |-> error, body |-> body, apiKeyPrefix |-> <<>>]

\* the value of process.env.AIRTABLE_API_KEY in a configured deployment
AIRTABLE_API_KEY == <<"p", "a", "t", "A", "B", "C", "1", "2", "3", "4", "x", "f">>

KEY_PREFIX_LENGTH == 8

\* process.env.AIRTABLE_API_KEY?.substring(0, 8) + '...'
apiKeyPrefix(isSet) ==
    (IF isSet THEN FirstN(AIRTABLE_API_KEY, KEY_PREFIX_LENGTH) ELSE <<"u", "n", "d", "e", "f", "i", "n", "e", "d">>)
        \o <<".", ".", ".">>

\* the handler answers by itself
HandlerAnswer(response) ==
    /\ hres' = response
    /\ hpc' = "done"

\* the handler from its entry to its own answer, to the first call of the
\* test_airtable route, or to the call of the operation it dispatches to
handler ==
    /\ hpc = "start"
    /\ UNCHANGED <<validatorVars, request, configured>>
    /\ UNCHANGED <<creds, store, cleanEmail, uniqueSearchQueries, qi,
                   foundOrderWithWrongEmail, searchResult, calls, res>>
    /\ UNCHANGED <<airtableConfigured, spc, now, started, ti, registrationId, lastError,
                   sink, timedOut, timer, responses>>
    /\ UNCHANGED <<directory, matched, method, ucalls, ures>>
    /\ LET b == request.body
           to == Route(b)
       IN  /\ route' = IF request.method # "POST" \/ b.t = "undefined" THEN "none"
                       ELSE IF b.action = TEST_AIRTABLE THEN "test_airtable"
                       ELSE to
           /\ IF request.method = "OPTIONS"
              THEN HandlerAnswer(HandlerResponse(200, Null, FALSE))
              ELSE IF request.method # "POST"
              THEN HandlerAnswer(HandlerResponse(405, "Method Not Allowed", TRUE))
              ELSE IF b.t = "undefined"
              \* the destructuring throws inside the try block
              THEN HandlerAnswer(HandlerResponse(500, "Internal server error", TRUE))
              ELSE IF b.action = TEST_AIRTABLE
              THEN /\ hpc' = "testing"
                   /\ UNCHANGED hres
              ELSE IF to = "none"
              THEN HandlerAnswer(HandlerResponse(400, "Invalid request parameters", TRUE))
              ELSE /\ hpc' = "dispatched"
                   /\ UNCHANGED hres
           /\ IF route' = "verify_order"
              THEN /\ opc' = "start"
                   /\ req' = [orderNumber |-> b.orderNumber, email |-> b.email]
              ELSE UNCHANGED <<opc, req>>
           /\ IF route' = "verify_username"
              THEN /\ upc' = "start"
                   /\ username' = b.username
              ELSE UNCHANGED <<upc, username>>
           /\ IF route' = "register_delivery"
              THEN /\ dpc' = "start"
                   /\ deliveryData' = [order |-> b.deliveryData.order,
                                       roblox |-> b.deliveryData.roblox,
                                       complete |-> b.deliveryData.complete]
              ELSE UNCHANGED <<dpc, deliveryData>>

\* test_airtable: the base metadata request is answered (2xx or not), and
\* after a 2xx answer the tables request is answered too
TestAirtableAnswered ==
    /\ hpc = "testing"
    /\ UNCHANGED <<validatorVars, orderVars, deliveryVars, usernameVars>>
    /\ UNCHANGED <<request, configured, route>>
    /\ HandlerAnswer([HandlerResponse(200, Null, TRUE)
                         EXCEPT !.apiKeyPrefix = apiKeyPrefix(configured)])

\* test_airtable: a fetch throws
TestAirtableFailed ==
    /\ hpc = "testing"
    /\ UNCHANGED <<validatorVars, orderVars, deliveryVars, usernameVars>>
    /\ UNCHANGED <<request, configured, route>>
    /\ HandlerAnswer(HandlerResponse(500, "fetch failed", TRUE))

---------------------------------------------------------------------------
(* Idle values: what the variables of an operation hold in the behaviours *)
(* of another operation                                                   *)

NoDecision == [valid |-> FALSE, reason |-> "(not validated)"]

ValidatorIdle ==
    /\ vpc = "idle"
    /\ order = NoOrder
    /\ decision = NoDecision

OrderStart ==
    /\ cleanEmail = <<>>
    /\ uniqueSearchQueries = <<>>
    /\ qi = 0
    /\ foundOrderWithWrongEmail = NoOrder
    /\ searchResult = NotFound
    /\ calls = <<>>
    /\ res = NoResponse

OrderIdle ==
    /\ opc = "idle"
    /\ req = [orderNumber |-> JsUndefined, email |-> JsUndefined]
    /\ creds = FALSE
    /\ store = <<>>
    /\ OrderStart

DeliveryStart ==
    /\ spc = "idle"
    /\ now = 0
    /\ started = 0
    /\ ti = 0
    /\ registrationId = NoId
    /\ lastError = Null
    /\ sink = <<>>
    /\ timedOut = FALSE
    /\ timer = "unset"
    /\ responses = <<>>

DeliveryIdle ==
    /\ dpc = "idle"
    /\ deliveryData = [order |-> FALSE, roblox |-> FALSE, complete |-> FALSE]
    /\ airtableConfigured = FALSE
    /\ DeliveryStart

UsernameStart ==
    /\ matched = NoUser
    /\ method = Null
    /\ ucalls = <<>>
    /\ ures = NoUsernameResponse

UsernameIdle ==
    /\ upc = "idle"
    /\ username = JsUndefined
    /\ directory = <<>>
    /\ UsernameStart

NoRequest == Request("none", NoBody)

NoHandlerResponse == [status |-> 0, error |-> Null, body |-> FALSE, apiKeyPrefix |-> <<>>]

HandlerIdle ==
    /\ hpc = "idle"
    /\ request = NoRequest
    /\ configured = FALSE
    /\ route = "none"
    /\ hres = NoHandlerResponse

---------------------------------------------------------------------------
(* The validator on its own: every order of a bounded family is validated. *)

MaxRefunds == 2

FinancialStatuses == {"paid", "partially_paid", "pending", "refunded", "partially_refunded"}

CancelledAts == {Null, "2024-05-01T10:00:00Z"}

FulfillmentStatuses == {Null, "partial", "fulfilled"}

\* amounts in cents: "0.00", "10.10", "20.20", "30.30", "100.00"
Amounts == {0, 1010, 2020, 3030, 10000}

RefundLists ==
    UNION {[1..n -> [amount : Amounts]] : n \in 0..MaxRefunds}

ValidatorOrders ==
    [financial_status : FinancialStatuses,
     cancelled_at : CancelledAts,
     fulfillment_status : FulfillmentStatuses,
     total_price : Amounts,
     refunds : RefundLists]

InitValidator ==
    /\ vpc = "input"
    /\ order \in ValidatorOrders
    /\ decision = NoDecision
    /\ OrderIdle
    /\ DeliveryIdle
    /\ UsernameIdle
    /\ HandlerIdle

Validate ==
    /\ vpc = "input"
    /\ decision' = validateOrderForDelivery(order)
    /\ vpc' = "validated"
    /\ UNCHANGED <<order, orderVars, deliveryVars, usernameVars, handlerVars>>

NextValidator == Validate

SpecValidator == InitValidator /\ [][NextValidator]_vars

---------------------------------------------------------------------------
(* verify_order: one request against one store, every call of which may fail *)

MaxStore == 2

StoreNames == { <<"#", "1", "2">>, <<"A", "G", "-", "1", "2">>, <<"A", "F", "1", "2">> }

\* the caller's address in another case, another customer's, and none
StoreEmails == { <<"A", "@", "b", ".", "c">>, <<"x", "@", "b", ".", "c">>, <<>> }

StoreOrder(name, email, cancelled_at) ==
    [name |-> name, email |-> email, order_number |-> 12,
     financial_status |-> "paid", cancelled_at |-> cancelled_at,
     fulfillment_status |-> Null, total_price |-> 10000, refunds |-> <<>>]

StoreOrders ==
    {StoreOrder(n, e, c) : n \in StoreNames, e \in StoreEmails, c \in CancelledAts}

Stores ==
    UNION {{s \in [1..n -> StoreOrders] :
               \A i, j \in 1..n : i # j => s[i].name # s[j].name} : n \in 0..MaxStore}

OrderNumbers ==
    { JsString(<<"1", "2">>), JsString(<<" ", "#", "1", "2", " ">>),
      JsString(<<"A", "F", "1", "2">>), JsString(<<>>), JsString(<<" ">>),
      JsNumber(<<"1", "2">>),
      JsUndefined }

CallerEmails ==
    { JsString(<<"a", "@", "b", ".", "c">>), JsString(<<" ", "A", "@", "B", ".", "c">>),
      JsString(<<"a", "b", ".", "c">>), JsUndefined }

InitOrder ==
    /\ opc = "start"
    /\ req \in [orderNumber : OrderNumbers, email : CallerEmails]
    /\ creds \in BOOLEAN
    /\ store \in Stores
    /\ OrderStart
    /\ ValidatorIdle
    /\ DeliveryIdle
    /\ UsernameIdle
    /\ HandlerIdle

NextOrder ==
    \/ handleOrderVerification
    \/ NameSearchAnswered
    \/ NameSearchFailed
    \/ EmailSearchAnswered
    \/ EmailSearchFailed

SpecOrder == InitOrder /\ [][NextOrder]_vars

\* verify_order with its scheduling: the handler's own code runs when it can;
\* the answer to an awaited fetch is the order store's to give, and no timer
\* of the program (611-663) ends the wait
InitOrderLive == InitOrder /\ Len(store) <= 1

SpecOrderLive ==
    InitOrderLive /\ [][NextOrder]_vars /\ WF_vars(handleOrderVerification)

---------------------------------------------------------------------------
(* register_delivery: one request, every sink request of which may be       *)
(* answered, refused, aborted or broken                                     *)

\* the sub-fields sit inside the parts: none of them without both parts
DeliveryDatas ==
    {d \in [order : BOOLEAN, roblox : BOOLEAN, complete : BOOLEAN] :
        d.complete => (d.order /\ d.roblox)}

InitDelivery ==
    /\ dpc = "start"
    /\ deliveryData \in DeliveryDatas
    /\ airtableConfigured \in BOOLEAN
    /\ DeliveryStart
    /\ ValidatorIdle
    /\ OrderIdle
    /\ UsernameIdle
    /\ HandlerIdle

NextDelivery ==
    \/ handleDeliveryRegistration
    \/ TableSaved
    \/ TableRefused
    \/ TableAborted
    \/ TableNetworkError
    \/ Discovery
    \/ Timeout
    \/ TimeoutAfterResponse

SpecDelivery == InitDelivery /\ [][NextDelivery]_vars

---------------------------------------------------------------------------
(* verify_username: one request against one directory of accounts, every    *)
(* identity-provider call of which may fail                                 *)

MaxUsers == 2

\* an account named as the caller means, one whose name only contains the
\* handle, and one renamed away from the handle
Accounts ==
    { [id |-> 1,  name |-> <<"A", "b", "c", "_", "1">>, former |-> <<>>],
      [id |-> 26, name |-> <<"a", "b", "c", "_", "1", "2">>, former |-> <<>>],
      [id |-> 7,  name |-> <<"X", "b", "c", "_", "9">>, former |-> <<"a", "b", "c", "_", "1">>] }

Directories ==
    UNION {{d \in [1..n -> Accounts] : \A i, j \in 1..n : i # j => d[i] # d[j]}
              : n \in 0..MaxUsers}

LongUsername == [i \in 1..(MAX_USERNAME + 1) |-> "a"]

Usernames ==
    { JsString(<<"a", "b", "c", "_", "1">>), JsString(<<" ", "A", "B", "C", "_", "1", " ">>),
      JsString(<<"A", "b", "c", "_", "1">>),
      JsString(<<"a", "b">>), JsString(LongUsername), JsString(<<"a", "b", "-", "1">>),
      JsString(<<" ", " ">>), JsString(<<>>), JsNumber(<<"7">>), JsUndefined }

InitUsername ==
    /\ upc = "start"
    /\ username \in Usernames
    /\ directory \in Directories
    /\ UsernameStart
    /\ ValidatorIdle
    /\ OrderIdle
    /\ DeliveryIdle
    /\ HandlerIdle

NextUsername ==
    \/ handleUsernameVerification
    \/ PrimaryAnswered
    \/ PrimaryFailed
    \/ SearchAnswered
    \/ SearchFailed
    \/ AvatarAnswered
    \/ AvatarFailed

SpecUsername == InitUsername /\ [][NextUsername]_vars

---------------------------------------------------------------------------
(* src/verify.js: one request to the username-only handler                  *)

HttpMethods == {"POST", "GET", "OPTIONS"}

UsernameBodies ==
    {NoBody, Body("string", JsUndefined, JsUndefined, JsUndefined, JsUndefined, JsUndefined)}
    \cup {Body("object", JsUndefined, JsUndefined, JsUndefined, u, JsUndefined)
             : u \in Usernames}

InitLegacy ==
    /\ upc = "verify"
    /\ request \in {Request(m, b) : m \in HttpMethods, b \in UsernameBodies}
    /\ username = JsUndefined
    /\ directory \in Directories
    /\ UsernameStart
    /\ configured = FALSE
    /\ hpc = "idle"
    /\ route = "none"
    /\ hres = NoHandlerResponse
    /\ ValidatorIdle
    /\ OrderIdle
    /\ DeliveryIdle

NextLegacy ==
    \/ verifyHandler
    \/ GetByUsernameAnswered
    \/ GetByUsernameFailed
    \/ HeadshotAnswered
    \/ HeadshotFailed

SpecLegacy == InitLegacy /\ [][NextLegacy]_vars

---------------------------------------------------------------------------
(* src/unnamed/part_003: one request to the handler that falls back on the   *)
(* profile redirect and on the search page                                   *)

InitScraping ==
    /\ upc = "scraping"
    /\ request \in {Request(m, b) : m \in HttpMethods \cup {"OPTIONS"}, b \in UsernameBodies}
    /\ username = JsUndefined
    /\ directory \in Directories
    /\ UsernameStart
    /\ configured = FALSE
    /\ hpc = "idle"
    /\ route = "none"
    /\ hres = NoHandlerResponse
    /\ ValidatorIdle
    /\ OrderIdle
    /\ DeliveryIdle

NextScraping ==
    \/ scrapingHandler
    \/ KeywordSearchAnswered
    \/ KeywordSearchFailed
    \/ AvatarAnswered
    \/ AvatarFailed
    \/ ProfileAnswered
    \/ ProfileFailed
    \/ SearchPageAnswered
    \/ SearchPageFailed

SpecScraping == InitScraping /\ [][NextScraping]_vars

---------------------------------------------------------------------------
(* src/unnamed/part_001: one order verification against the mock orders     *)

MockOrderNumbers ==
    { JsString(<<"1", "2", "2", "2">>), JsString(<<" ", "#", "1", "2", "2", "2", " ">>), JsString(<<"1", "0", "0", "1">>), JsString(<<"A", "F", "1", "2", "3", "4">>), JsString(<<"9", "9", "9", "9">>),
      JsString(<<>>), JsNumber(<<"1", "2", "2", "2">>), JsUndefined }

MockEmails ==
    { JsString(<<"t", "e", "s", "t", "@", "w", "o", "o", ".", "c", "o", "m">>), JsString(<<" ", "u", "s", "e", "r", "@", "g", "m", "a", "i", "l", ".", "c", "o", "m", " ">>), JsString(<<"c", "u", "s", "t", "o", "m", "e", "r", "@", "e", "x", "a", "m", "p", "l", "e", ".", "c", "o", "m">>), JsString(<<"n", "o", "b", "o", "d", "y", "@", "e", "x", "a", "m", "p", "l", "e", ".", "c", "o", "m">>), JsString(<<"t", "e", "s", "t", ".", "w", "o", "o", ".", "c", "o", "m">>),
      JsNumber(<<"7">>), JsUndefined }

InitMock ==
    /\ opc = "mock"
    /\ req \in [orderNumber : MockOrderNumbers, email : MockEmails]
    /\ creds = FALSE
    /\ store = <<>>
    /\ OrderStart
    /\ ValidatorIdle
    /\ DeliveryIdle
    /\ UsernameIdle
    /\ HandlerIdle

NextMock ==
    \/ mockOrderVerification

SpecMock == InitMock /\ [][NextMock]_vars

---------------------------------------------------------------------------
(* src/unnamed/part_005: one verify_order request against one store         *)

InitNameOnly ==
    /\ opc = "nameOnlyStart"
    /\ req \in [orderNumber : OrderNumbers, email : CallerEmails]
    /\ creds \in BOOLEAN
    /\ store \in Stores
    /\ OrderStart
    /\ ValidatorIdle
    /\ DeliveryIdle
    /\ UsernameIdle
    /\ HandlerIdle

NextNameOnly ==
    \/ orderVerificationByNameOnly
    \/ NameOnlyAnswered
    \/ NameOnlyFailed

SpecNameOnly == InitNameOnly /\ [][NextNameOnly]_vars

---------------------------------------------------------------------------
(* src/unnamed/part_004: one verify_order request against a store of at     *)
(* most one order                                                           *)

InitEnhanced ==
    /\ opc = "enhancedStart"
    /\ req \in [orderNumber : OrderNumbers, email : CallerEmails]
    /\ creds \in BOOLEAN
    /\ store \in {st \in Stores : Len(st) <= 1}
    /\ OrderStart
    /\ ValidatorIdle
    /\ DeliveryIdle
    /\ UsernameIdle
    /\ HandlerIdle

NextEnhanced ==
    \/ enhancedOrderVerification
    \/ ShopTestAnswered
    \/ ShopTestFailed
    \/ EnhancedNameAnswered
    \/ EnhancedNameFailed
    \/ ByNumberAnswered
    \/ ByNumberFailed
    \/ EnhancedEmailAnswered
    \/ EnhancedEmailFailed
    \/ GraphqlAnswered
    \/ GraphqlFailed

SpecEnhanced == InitEnhanced /\ [][NextEnhanced]_vars

---------------------------------------------------------------------------
(* src/api/verify.js: one request to the endpoint, from the handler's entry  *)
(* to the end of the operation it dispatches to                              *)

HandlerMethods == {"POST", "GET", "OPTIONS"}

Actions ==
    { JsUndefined, VERIFY_ORDER, VERIFY_USERNAME, REGISTER_DELIVERY, TEST_AIRTABLE,
      JsString(<<"r", "e", "f", "u", "n", "d">>) }

HandlerBodies ==
    {NoBody}
    \cup {Body("object", a, o, e, u, d) :
             a \in Actions,
             o \in {JsUndefined, JsString(<<"1", "2">>), JsNumber(<<"1", "2">>)},
             e \in {JsUndefined, JsString(<<"a", "@", "b", ".", "c">>)},
             u \in {JsUndefined, JsString(<<"a", "b", "c", "_", "1">>), JsString(<<>>)},
             d \in {JsUndefined, JsObject(TRUE, TRUE, TRUE), JsObject(TRUE, FALSE, FALSE)}}

\* a store that holds the order under the caller's email, and one that holds
\* it under another email
HandlerStores ==
    { <<StoreOrder(<<"#", "1", "2">>, <<"A", "@", "b", ".", "c">>, Null)>>,
      <<StoreOrder(<<"A", "F", "1", "2">>, <<"x", "@", "b", ".", "c">>, Null)>> }

HandlerDirectories ==
    { <<>>, <<[id |-> 1, name |-> <<"A", "b", "c", "_", "1">>, former |-> <<>>]>> }

InitHandler ==
    /\ hpc = "start"
    /\ request \in {Request(m, b) : m \in HandlerMethods, b \in HandlerBodies}
    /\ configured \in BOOLEAN
    /\ route = "none"
    /\ hres = NoHandlerResponse
    /\ opc = "idle"
    /\ req = [orderNumber |-> JsUndefined, email |-> JsUndefined]
    /\ creds = configured
    /\ store \in HandlerStores
    /\ OrderStart
    /\ dpc = "idle"
    /\ deliveryData = [order |-> FALSE, roblox |-> FALSE, complete |-> FALSE]
    /\ airtableConfigured = configured
    /\ DeliveryStart
    /\ upc = "idle"
    /\ username = JsUndefined
    /\ directory \in HandlerDirectories
    /\ UsernameStart
    /\ ValidatorIdle

NextHandler ==
    \/ handler
    \/ TestAirtableAnswered
    \/ TestAirtableFailed
    \/ handleOrderVerification
    \/ NameSearchAnswered
    \/ NameSearchFailed
    \/ EmailSearchAnswered
    \/ EmailSearchFailed
    \/ handleUsernameVerification
    \/ PrimaryAnswered
    \/ PrimaryFailed
    \/ SearchAnswered
    \/ SearchFailed
    \/ AvatarAnswered
    \/ AvatarFailed
    \/ handleDeliveryRegistration
    \/ TableSaved
    \/ TableRefused
    \/ TableAborted
    \/ TableNetworkError
    \/ Discovery
    \/ Timeout
    \/ TimeoutAfterResponse

SpecHandler == InitHandler /\ [][NextHandler]_vars

---------------------------------------------------------------------------
(* Properties of handleOrderVerification and findShopifyOrder, checked      *)
(* under SpecOrder                                                          *)

\* findShopifyOrder has been called and has returned
SearchDone == opc = "done" /\ calls # <<>>

StoredOrders == {store[i] : i \in 1..Len(store)}

\* the caller's address, lower-cased and trimmed
CallerEmail == Trim(ToLowerCase(req.email.s))

OwnedByCaller(o) == o.email # <<>> /\ Trim(ToLowerCase(o.email)) = CallerEmail

IsCandidate(name) == \E k \in 1..Len(uniqueSearchQueries) : uniqueSearchQueries[k] = name

KeyIndex(name) == CHOOSE k \in 1..Len(uniqueSearchQueries) : uniqueSearchQueries[k] = name

NameLookupFailed(name) ==
    \E i \in 1..Len(calls) :
        calls[i].kind = "name" /\ calls[i].query = name /\ ~calls[i].ok

\* the by-name lookups that were answered with an order of another owner
WrongOwnerCalls ==
    {i \in 1..Len(calls) : /\ calls[i].kind = "name"
                           /\ calls[i].ok
                           /\ Len(calls[i].orders) > 0
                           /\ ~OwnedByCaller(calls[i].orders[1])}

EmailMatched == searchResult.found /\ searchResult.emailMatch

\* C1: the answer is 200 with verified: true only if findShopifyOrder returned
\* an order with emailMatch true and validateOrderForDelivery found that same
\* order valid; every other answer has status 400, 404 or 500.
C1_VerifiedOnlyIfMatchedAndValid ==
    opc = "done" =>
        /\ res.status \in {200, 400, 404, 500}
        /\ res.verified <=> res.status = 200
        /\ res.status = 200 =>
              /\ EmailMatched
              /\ validateOrderForDelivery(searchResult.order).valid
              /\ res.orderNumber = searchResult.order.name

\* C1 witness: a 200 answer that followed a lookup answered with another
\* owner's order
C1_Witness ==
    /\ opc = "done"
    /\ res.status = 200
    /\ res.verified
    /\ WrongOwnerCalls # {}

C4_WrongOwnerOrderIsTheResult ==
    \A i \in WrongOwnerCalls :
        (SearchDone /\ ~EmailMatched)
            => searchResult = Found(calls[i].orders[1], FALSE)

LastWrongOwnerCall == CHOOSE i \in WrongOwnerCalls : \A j \in WrongOwnerCalls : j <= i

\* C4 (amended): if candidate lookups returned orders of another owner and no
\* email match was found, the result is never null: it is the order returned by
\* the last of those lookups, with emailMatch false.
C4_LastWrongOwnerOrderIsTheResult ==
    (SearchDone /\ ~EmailMatched /\ WrongOwnerCalls # {})
        => searchResult = Found(calls[LastWrongOwnerCall].orders[1], FALSE)

\* C4 witness: two lookups returned different orders of other owners, the
\* by-email query found nothing, and the result is the later of the two orders
C4_Witness ==
    /\ SearchDone
    /\ ~EmailMatched
    /\ Cardinality({calls[i].orders[1] : i \in WrongOwnerCalls}) = 2
    /\ calls[Len(calls)].kind = "email"
    /\ calls[Len(calls)].ok
    /\ searchResult = Found(calls[LastWrongOwnerCall].orders[1], FALSE)

\* C11, for src/api/verify.js: verify_order answers 404 'Order not found' when
\* findShopifyOrder found no order at all, and 400 'Email does not match the
\* order number' when it found an order only under another email; the two
\* answers differ in status and in message.
C11_NotFoundAndWrongOwnerDistinct ==
    SearchDone =>
        /\ ~searchResult.found
              => (res.status = 404 /\ res.error = "Order not found")
        /\ (searchResult.found /\ ~searchResult.emailMatch)
              => (res.status = 400 /\ res.error = "Email does not match the order number")
        /\ res.status = 404 => ~searchResult.found
        /\ res.error = "Email does not match the order number"
              => (searchResult.found /\ ~searchResult.emailMatch)

\* the mock orders of the number the caller gave, and those of them placed
\* under the caller's email
MockNamed ==
    {i \in 1..Len(mockOrders) :
        StripPrefix(mockOrders[i].orderNumber, HASH)
            = StripPrefix(Trim(req.orderNumber.s), HASH)}

MockOwned ==
    {i \in MockNamed : ToLowerCase(mockOrders[i].email) = Trim(ToLowerCase(req.email.s))}

\* C11 (as claimed): a well-formed request for an order number that no order
\* has is answered 404, one for an order that exists only under another email
\* is answered 400 'Email does not match the order number', and the two answers
\* never have the same status and message.
C11_AbsentAndWrongOwnerAnsweredApart ==
    (/\ opc = "done"
     /\ req.orderNumber.t = "string"
     /\ req.email.t = "string"
     /\ Truthy(req.orderNumber)
     /\ emailRegex(Trim(ToLowerCase(req.email.s))))
        => /\ MockNamed = {} => res.status = 404
           /\ (MockNamed # {} /\ MockOwned = {})
                 => (res.status = 400 /\ res.error = "Email does not match the order number")

\* the reference findShopifyOrder is called with, and the by-name loop entered
Reference == Trim(req.orderNumber.s)

Searching == opc \in {"byName", "byEmail"} \/ SearchDone

NameCalls == {i \in 1..Len(calls) : calls[i].kind = "name"}

\* C23: the first element of the candidate list of findShopifyOrder is the
\* reference it was called with, unchanged, and the first key probed is that
\* reference.
C23_LiteralReferenceFirst ==
    Searching =>
        /\ uniqueSearchQueries[1] = Reference
        /\ calls # <<>> => (calls[1].kind = "name" /\ calls[1].query = Reference)

\* C23 witness: a prefixed reference was probed first, literally, and other
\* candidates were probed after it
C23_Witness ==
    /\ SearchDone
    /\ IsPrefix(AF, Reference)
    /\ calls[1].query = Reference
    /\ Cardinality(NameCalls) >= 2

\* C24: the candidate list holds no key twice and holds the transforms of the
\* reference in the order of their first occurrence among the seven fixed
\* transforms, and the by-name loop probes no key twice.
C24_CandidatesUniqueAndOrderStable ==
    Searching =>
        LET transforms == searchQueries(Reference)
            first == {i \in 1..Len(transforms) :
                         \A j \in 1..(i - 1) : transforms[j] # transforms[i]}
        IN  /\ \A i, j \in 1..Len(uniqueSearchQueries) :
                  i # j => uniqueSearchQueries[i] # uniqueSearchQueries[j]
            /\ Len(uniqueSearchQueries) = Cardinality(first)
            /\ \A i \in first :
                  uniqueSearchQueries[Cardinality({j \in first : j <= i})] = transforms[i]
            /\ \A i, j \in NameCalls : i # j => calls[i].query # calls[j].query

\* C24 witness: transforms of the reference coincided, and every remaining key
\* was probed by name
C24_Witness ==
    /\ SearchDone
    /\ Len(uniqueSearchQueries) < Len(searchQueries(Reference))
    /\ Len(uniqueSearchQueries) > 1
    /\ Cardinality(NameCalls) = Len(uniqueSearchQueries)

\* the reference without its prefix, and whether it is a number
Stripped == StripAny(Reference, <<AGDASH, AF, HASH>>)

IsNumber(str) == str # <<>> /\ \A i \in 1..Len(str) : \E d \in 1..Len(Digits) : str[i] = Digits[d]

\* C25 (as claimed): for a reference n, #n, AG-n or AFn with n a number, the
\* candidate list holds n, #n, AG-n and AFn, whichever spelling was typed.
C25_EveryPrefixAppliedToStrippedForm ==
    (Searching /\ IsNumber(Stripped))
        => /\ IsCandidate(Stripped)
           /\ IsCandidate(HASH \o Stripped)
           /\ IsCandidate(AGDASH \o Stripped)
           /\ IsCandidate(AF \o Stripped)

\* every order-store call of the request was answered
EveryCallAnswered == \A i \in 1..Len(calls) : calls[i].ok

\* the order an end-to-end run is about: display name '#' + reference, placed
\* under the caller's address, paid, unfulfilled, not cancelled, no refunds,
\* and the only stored order a candidate names
TheOrder(o) ==
    /\ o.name = HASH \o Reference
    /\ OwnedByCaller(o)
    /\ o.financial_status = "paid"
    /\ o.fulfillment_status = Null
    /\ o.cancelled_at = Null
    /\ o.refunds = <<>>
    /\ \A p \in StoredOrders : IsCandidate(p.name) => p = o

\* C26: end to end, a request whose reference is the bare number 12 and whose
\* email is the owner's, against a store that answers and whose only matching
\* order is named #12, paid, unfulfilled, not cancelled and without refunds,
\* is answered 200 with verified: true and orderNumber "#12", the store's
\* display name and not the caller's spelling.
C26_EndToEndVerifiedUnderStoreName ==
    (/\ SearchDone
     /\ Reference = <<"1", "2">>
     /\ EveryCallAnswered
     /\ \E o \in StoredOrders : TheOrder(o))
        => /\ res.status = 200
           /\ res.verified
           /\ res.orderNumber = <<"#", "1", "2">>
           /\ res.orderNumber # Reference

C26_Witness ==
    /\ SearchDone
    /\ Reference = <<"1", "2">>
    /\ EveryCallAnswered
    /\ \E o \in StoredOrders : TheOrder(o)
    /\ Len(store) = 1
    /\ Len(calls) = 2
    /\ res.verified

\* the by-name lookups answered with an order placed under the caller's address
OwnerMatchCalls ==
    {i \in 1..Len(calls) : /\ calls[i].kind = "name"
                           /\ calls[i].ok
                           /\ Len(calls[i].orders) > 0
                           /\ OwnedByCaller(calls[i].orders[1])}

\* C29: as soon as a by-name lookup is answered with an order whose email is
\* the caller's, findShopifyOrder returns that order with emailMatch true, and
\* no further call to the order store is made: the lookup is the last call of
\* the request.
C29_ShortCircuitOnOwnerMatch ==
    \A i \in OwnerMatchCalls :
        /\ i = Len(calls)
        /\ opc = "done"
        /\ searchResult = Found(calls[i].orders[1], TRUE)

C29_Witness ==
    /\ OwnerMatchCalls # {}
    /\ Len(calls) >= 2
    /\ Len(calls) < Len(uniqueSearchQueries)
    /\ \A i \in 1..Len(calls) : calls[i].kind = "name"

EmailCalls == {i \in 1..Len(calls) : calls[i].kind = "email"}

Bare(str) == StripAny(str, <<HASH, AGDASH, AF>>)

\* the order's display name or its numeric order number equals a candidate,
\* the prefixes '#', 'AG-' and 'AF' ignored
NamesCandidate(o) ==
    \E k \in 1..Len(uniqueSearchQueries) :
        \/ Bare(o.name) = Bare(uniqueSearchQueries[k])
        \/ numberToString(o.order_number) = Bare(uniqueSearchQueries[k])

\* C30 (as claimed): when findShopifyOrder returns without a by-name lookup
\* having yielded an email match, exactly one by-email query was issued, as the
\* last call; if its answer holds an order whose display name or order number
\* equals a candidate, prefixes ignored, such an order of that answer is
\* returned with emailMatch true, whatever wrong-owner order was remembered.
C30_EmailFallback ==
    (SearchDone /\ OwnerMatchCalls = {}) =>
        /\ EmailCalls = {Len(calls)}
        /\ LET answer == calls[Len(calls)]
           IN  (answer.ok /\ \E i \in 1..Len(answer.orders) : NamesCandidate(answer.orders[i]))
                  => /\ searchResult.found
                     /\ searchResult.emailMatch
                     /\ NamesCandidate(searchResult.order)
                     /\ \E i \in 1..Len(answer.orders) :
                            searchResult.order = answer.orders[i]

FailedCalls == {i \in 1..Len(calls) : ~calls[i].ok}

\* the order of the latest by-name lookup answered with another owner's order
LastWrongOwner ==
    IF WrongOwnerCalls = {}
    THEN NoOrder
    ELSE calls[CHOOSE i \in WrongOwnerCalls : \A j \in WrongOwnerCalls : j <= i].orders[1]

\* C31: a failed order-store call counts as no result for its candidate. The
\* by-name lookups follow the candidate list one by one whatever failed, a
\* failed lookup that is not the last call of a finished search is followed by
\* another call, the remembered wrong-owner order is the one of the latest
\* lookup that found one, and once findShopifyOrder has returned its result
\* is a stored order or null and the answer is not the 500 of a thrown error.
C31_FailedCallIsNoResult ==
    /\ \A i \in NameCalls : i <= Len(uniqueSearchQueries)
                              /\ calls[i].query = uniqueSearchQueries[i]
    /\ \A i \in FailedCalls :
           (opc = "done" /\ calls[i].kind = "name") => i < Len(calls)
    /\ Searching => (OwnerMatchCalls = {} => foundOrderWithWrongEmail = LastWrongOwner)
    /\ SearchDone =>
           /\ \/ searchResult = NotFound
              \/ searchResult.found /\ searchResult.order \in StoredOrders
           /\ (OwnerMatchCalls = {} /\ ~calls[Len(calls)].ok)
                  => searchResult = wrongOwnerOrNull(LastWrongOwner)
           /\ res.status \in {200, 400, 404}

C31_Witness ==
    /\ SearchDone
    /\ WrongOwnerCalls # {}
    /\ \E i \in FailedCalls : \E j \in WrongOwnerCalls : j < i
    /\ \E i \in FailedCalls : \E j \in WrongOwnerCalls : i < j
    /\ ~calls[Len(calls)].ok
    /\ searchResult = Found(LastWrongOwner, FALSE)

C31_WitnessTotalFailure ==
    /\ SearchDone
    /\ FailedCalls = 1..Len(calls)
    /\ Len(calls) = Len(uniqueSearchQueries) + 1
    /\ searchResult = NotFound

\* findShopifyOrder returned an order placed under another address
WrongOwnerReturned ==
    opc = "done" /\ calls # <<>> /\ searchResult.found /\ ~searchResult.emailMatch

\* C37 (as claimed): the answer given when the order is found under another
\* email is 400 and is made of the request and the order's name alone, so
\* that two stores that differ only in the email of the located order are
\* answered alike: no value written into the body is the owner's email.
C37_WrongOwnerAnswerHidesOwner ==
    WrongOwnerReturned
        => /\ res.status = 400
           /\ res.error = "Email does not match the order number"
           /\ \A i \in 1..Len(res.interpolated) :
                  res.interpolated[i] \in {Reference, CallerEmail, searchResult.order.name}

\* the number of entries of the searchQueries array literal
MaxCandidates == Len(searchQueries(<<>>))

MaxOrderStoreCalls == MaxCandidates + 1

\* C38: findShopifyOrder has at most 7 distinct candidates, looks each of them
\* up by name at most once, issues at most one by-email query, after the
\* by-name lookups, hence at most 8 order-store calls; it is still running
\* only while fewer calls than candidates plus one have come back, and it has
\* returned once the by-email query has.
C38_AtMostEightCalls ==
    /\ Len(uniqueSearchQueries) <= MaxCandidates
    /\ Cardinality(NameCalls) <= Len(uniqueSearchQueries)
    /\ \A i, j \in NameCalls : i # j => calls[i].query # calls[j].query
    /\ Cardinality(EmailCalls) <= 1
    /\ EmailCalls # {} => (EmailCalls = {Len(calls)} /\ opc = "done")
    /\ Len(calls) <= MaxOrderStoreCalls
    /\ opc \in {"byName", "byEmail"} => Len(calls) <= Len(uniqueSearchQueries)
    /\ Len(calls) = Len(uniqueSearchQueries) + 1 => opc = "done"

\* every candidate was looked up and the by-email query was issued
C38_Witness ==
    /\ SearchDone
    /\ Len(uniqueSearchQueries) >= 4
    /\ Cardinality(NameCalls) = Len(uniqueSearchQueries)
    /\ Cardinality(EmailCalls) = 1
    /\ FailedCalls # {}
    /\ Len(store) = 2

\* C28 (as claimed): every outbound call is bounded by a timeout, so a
\* verify_order request eventually gets its response even when a call to the
\* order store never returns.
C28_VerifyOrderEventuallyResponds == (opc = "start") ~> (opc = "done")

AllCallsFailed == calls # <<>> /\ \A i \in 1..Len(calls) : ~calls[i].ok

\* C12 (as claimed): when every order-store call of the request failed, the
\* answer is an upstream fault (5xx), not 404 'Order not found'.
C12_ExhaustionAnswers5xx ==
    (SearchDone /\ AllCallsFailed)
        => (res.status >= 500 /\ res.error # "Order not found")

\* C20 (as claimed): an orderNumber or email of a wrong JSON type, blank after
\* trimming or badly formatted is answered 400, never 500.
C20_MalformedInputAnswers400 ==
    (/\ opc = "done"
     /\ Truthy(req.orderNumber)
     /\ Truthy(req.email)
     /\ \/ req.orderNumber.t # "string"
        \/ req.email.t # "string"
        \/ Trim(req.orderNumber.s) = <<>>
        \/ ~emailRegex(Trim(ToLowerCase(req.email.s))))
        => res.status = 400

---------------------------------------------------------------------------
(* Properties of handleUsernameVerification, checked under SpecUsername     *)

\* the handle the caller means
Handle == Trim(username.s)

KnownAccounts == {directory[i] : i \in 1..Len(directory)}

\* the calls that look the handle up (not the avatar call)
LookupCalls == {i \in 1..Len(ucalls) : ucalls[i].api \in {"usernames", "search"}}

\* C13 (as claimed): a lookup that failed because the identity provider
\* rate-limited the calls is answered 429, one that failed because the provider
\* was unavailable is answered 502, and neither is answered 404.
C13_UpstreamFailureDistinguished ==
    (/\ upc = "done"
     /\ LookupCalls # {}
     /\ \A i \in LookupCalls : ~ucalls[i].ok)
        => /\ (\A i \in LookupCalls : ucalls[i].cause = "rate_limited")
                 => ures.status = 429
           /\ (\A i \in LookupCalls : ucalls[i].cause = "unavailable")
                 => ures.status = 502
           /\ ures.status # 404

\* C14: an account whose name equals the handle without regard to case is
\* accepted when the lookups are answered, and every 200 response carries the
\* id and the exact-cased name of such an account, not the caller's spelling.
C14_CanonicalNameReturned ==
    upc = "done" =>
        /\ (ures.status = 200 /\ ures.method # Null)
              => \E u \in KnownAccounts :
                    /\ ToLowerCase(u.name) = ToLowerCase(Handle)
                    /\ ures.username = u.name
                    /\ ures.userId = numberToString(u.id)
        /\ \A u \in KnownAccounts :
              (/\ ucalls # <<>>
               /\ ToLowerCase(u.name) = ToLowerCase(Handle)
               /\ \A i \in LookupCalls : ucalls[i].ok)
                  => (ures.status = 200 /\ ures.username = u.name)

\* what the identity provider answers the primary batch lookup with
PrimaryRecords == UsernameLookup(directory, Handle)

\* the primary lookup was answered with a record named as the handle
PrimaryMatched ==
    /\ ucalls # <<>>
    /\ ucalls[1].ok
    /\ PrimaryRecords # <<>>
    /\ ToLowerCase(PrimaryRecords[1].name) = ToLowerCase(Handle)

\* the keyword search, had it been called and answered, would have matched
SearchWouldMatch ==
    \E u \in KnownAccounts : /\ Includes(ToLowerCase(u.name), ToLowerCase(Handle))
                              /\ ToLowerCase(u.name) = ToLowerCase(Handle)

\* C32: the primary batch lookup is the first identity-provider call; the
\* keyword search is called only as the second call, after a primary lookup
\* that failed or returned no record named as the handle; and when the primary
\* lookup is answered with such a record the 200 response carries that record
\* and names the primary lookup as its method, also when the keyword search
\* would have matched.
C32_PrimaryLookupFirst ==
    /\ ucalls # <<>> => ucalls[1].api = "usernames"
    /\ \A i \in 1..Len(ucalls) :
           ucalls[i].api = "search"
              => (i = 2 /\ ucalls[1].api = "usernames" /\ ~PrimaryMatched)
    /\ (upc = "done" /\ PrimaryMatched)
           => /\ ures.status = 200
              /\ ures.method = "username-to-id-api"
              /\ ures.username = PrimaryRecords[1].name
              /\ ures.userId = numberToString(PrimaryRecords[1].id)

C32_Witness ==
    /\ upc = "done"
    /\ PrimaryMatched
    /\ SearchWouldMatch
    /\ Len(directory) = 2
    /\ ures.method = "username-to-id-api"

\* the keyword search is reached after a primary lookup without a match
C32_WitnessSearchReached ==
    /\ upc = "done"
    /\ Len(ucalls) >= 2
    /\ ucalls[1].ok
    /\ ucalls[2].api = "search"
    /\ ures.method = "search-api"

\* C15: a handle that after trimming is shorter than 3 or longer than 20
\* characters, or has a character outside [a-zA-Z0-9_], is answered 400 and no
\* outbound call is made.
C15_BadHandleAnswers400WithoutCalls ==
    (/\ upc = "done"
     /\ username.t = "string"
     /\ \/ Len(Handle) < 3
        \/ Len(Handle) > 20
        \/ \E i \in 1..Len(Handle) : Handle[i] \notin WordChars)
        => (ures.status = 400 /\ ucalls = <<>>)

\* C16: once a handle is matched, the avatar lookup cannot change the outcome:
\* the answer is 200 with the matched account's id, and when the lookup failed
\* or gave no image URL the avatar reference is the one built from that id.
C16_AvatarFailureNotFatal ==
    (upc = "done" /\ matched # NoUser)
        => /\ ures.status = 200
           /\ ures.userId = numberToString(matched.id)
           /\ ures.username = matched.name
           /\ ucalls[Len(ucalls)].api = "thumbnails"
           /\ (~ucalls[Len(ucalls)].ok \/ ucalls[Len(ucalls)].cause = "no imageUrl")
                 => ures.avatarUrl = ConstructedAvatar(matched.id)

\* C19 (as claimed): whatever the request - any method, a missing body, a
\* username of any type, any failure of the identity provider - no exception
\* leaves the top-level handler, and the request ends with a response that has
\* an HTTP status and, when that status is an error, an error body.
C19_NoExceptionLeavesHandler ==
    /\ upc # "threw"
    /\ upc = "done" => /\ ures.status \in 200..599
                       /\ ures.status >= 400 => ures.error # Null

---------------------------------------------------------------------------
(* Properties of handler, checked under SpecHandler                         *)

\* the request has been routed: it is a POST with a body that does not ask
\* for test_airtable, and the handler's first step is over
Routed ==
    /\ hpc # "start"
    /\ request.method = "POST"
    /\ request.body.t = "object"
    /\ request.body.action # TEST_AIRTABLE

\* the operation that was started, and the fields it was given
OrderVerificationCalled ==
    /\ route = "verify_order"
    /\ opc # "idle" /\ upc = "idle" /\ dpc = "idle"
    /\ req = [orderNumber |-> request.body.orderNumber, email |-> request.body.email]

UsernameVerificationCalled ==
    /\ route = "verify_username"
    /\ upc # "idle" /\ opc = "idle" /\ dpc = "idle"
    /\ username = request.body.username

DeliveryRegistrationCalled ==
    /\ route = "register_delivery"
    /\ dpc # "idle" /\ opc = "idle" /\ upc = "idle"
    /\ deliveryData.order = request.body.deliveryData.order
    /\ deliveryData.roblox = request.body.deliveryData.roblox
    /\ deliveryData.complete = request.body.deliveryData.complete

\* C17: a request that names an action and carries that action's required
\* fields is dispatched to the operation named, whatever else it carries.
C17_ExplicitActionDispatched ==
    Routed =>
        LET b == request.body
        IN  /\ (b.action = VERIFY_ORDER /\ Truthy(b.orderNumber) /\ Truthy(b.email))
                  => OrderVerificationCalled
            /\ (b.action = VERIFY_USERNAME /\ Truthy(b.username))
                  => UsernameVerificationCalled
            /\ (b.action = REGISTER_DELIVERY /\ Truthy(b.deliveryData))
                  => DeliveryRegistrationCalled

\* C17 witness: a verify_username request that also carries an order number,
\* an email and deliveryData has been answered by the username verification
C17_Witness ==
    /\ Routed
    /\ request.body.action = VERIFY_USERNAME
    /\ Truthy(request.body.username)
    /\ Truthy(request.body.orderNumber)
    /\ Truthy(request.body.email)
    /\ Truthy(request.body.deliveryData)
    /\ UsernameVerificationCalled
    /\ upc = "done"
    /\ ures.status = 200

\* C18 (as claimed): a request without an action is routed by its fields:
\* orderNumber and email alone to the order verification, username alone to
\* the username verification, deliveryData alone to the delivery registration.
C18_FieldsInferTheOperation ==
    (Routed /\ request.body.action = JsUndefined) =>
        LET b == request.body
        IN  /\ (/\ Truthy(b.orderNumber) /\ Truthy(b.email)
                /\ ~Truthy(b.username) /\ ~Truthy(b.deliveryData))
                  => OrderVerificationCalled
            /\ (/\ Truthy(b.username)
                /\ ~Truthy(b.orderNumber) /\ ~Truthy(b.email) /\ ~Truthy(b.deliveryData))
                  => UsernameVerificationCalled
            /\ (/\ Truthy(b.deliveryData)
                /\ ~Truthy(b.orderNumber) /\ ~Truthy(b.email) /\ ~Truthy(b.username))
                  => DeliveryRegistrationCalled

\* the body names an operation and lacks a field that operation requires
ActionLacksItsFields ==
    LET b == request.body
    IN  \/ b.action = VERIFY_ORDER /\ ~(Truthy(b.orderNumber) /\ Truthy(b.email))
        \/ b.action = VERIFY_USERNAME /\ ~Truthy(b.username)
        \/ b.action = REGISTER_DELIVERY /\ ~Truthy(b.deliveryData)

\* C36 (as claimed): a request whose action names an operation and whose body
\* lacks that operation's required fields is dispatched to no operation, not
\* even by field inference, and is answered 400.
C36_ExplicitActionNeverInferred ==
    (Routed /\ ActionLacksItsFields)
        => /\ route = "none"
           /\ opc = "idle" /\ upc = "idle" /\ dpc = "idle"
           /\ hpc = "done" => hres.status = 400

\* C22 (as claimed): no response body of the handler contains credential
\* material: no leading part of AIRTABLE_API_KEY is echoed to the caller.
C22_NoCredentialEchoed ==
    hpc = "done" =>
        \A n \in 1..Len(AIRTABLE_API_KEY) :
            ~Includes(hres.apiKeyPrefix, FirstN(AIRTABLE_API_KEY, n))

\* the handler of src/verify.js runs on the username variables alone
LegacyHandler == hpc = "idle"

\* the request has been answered
MethodAnswered == IF LegacyHandler THEN upc = "done" ELSE hpc = "done"

MethodStatus == IF LegacyHandler THEN ures.status ELSE hres.status

\* res.json(...) was called; src/verify.js answers with json only
MethodBody == IF LegacyHandler THEN ures.status # 0 ELSE hres.body

\* the request went past the method test to an operation
OperationReached ==
    IF LegacyHandler
    THEN \/ upc \in {"getByUsername", "headshot", "threw"}
         \/ ucalls # <<>>
         \/ ures.status \in {400, 404}
    ELSE \/ route # "none"
         \/ opc # "idle" \/ upc # "idle" \/ dpc # "idle"
         \/ hpc \in {"testing", "dispatched"}

\* C27 (as claimed): an OPTIONS request is answered with a success status,
\* without a body and without reaching an operation; a request whose method is
\* neither POST nor OPTIONS is answered 405; only POST requests reach an
\* operation.
C27_MethodRouting ==
    /\ (MethodAnswered /\ request.method = "OPTIONS")
           => (MethodStatus \in 200..299 /\ ~MethodBody)
    /\ (MethodAnswered /\ request.method \notin {"POST", "OPTIONS"})
           => MethodStatus = 405
    /\ OperationReached => request.method = "POST"

---------------------------------------------------------------------------
(* Properties of handleDeliveryRegistration and saveToAirtable, checked     *)
(* under SpecDelivery                                                       *)

\* C21 (as claimed): when deliveryData lacks order or roblox, or lacks the
\* order number, email, username or user id inside them, the response is 400
\* and no write to the sink is attempted.
C21_IncompleteDeliveryDataAnswers400 ==
    (dpc # "start" /\ ~deliveryData.complete)
        => /\ spc = "idle"
           /\ sink = <<>>
           /\ \A i \in 1..Len(responses) : responses[i].status = 400

\* saveToAirtable has returned or thrown; `now` is then the time it did
SaveSettled == spc \in {"resolved", "rejected"}

C34_ResponseIdIsRecordId ==
    \A i \in 1..Len(responses) : \A j \in 1..Len(sink) :
        responses[i].registrationId # NoId
            => sink[j].registrationId = responses[i].registrationId

C35_WitnessLateTimer ==
    /\ ~timedOut
    /\ timer = "fired"
    /\ spc = "resolved"
    /\ Len(responses) = 1

\* discovery returned a table outside the priority list with time left, and
\* saveToAirtable has settled
DiscoveredTableChosen == SaveSettled /\ ti = Len(priorityTableNames) + 1

\* C39 (as claimed): when all priority tables have failed and discovery, run
\* with more than 2 s left, returns a table outside the priority list, one
\* further save is attempted against it: saveToAirtable then settles either
\* with a record saved to that table and success, or with the failure of that
\* attempt as its last error.
C39_DiscoveredTableTried ==
    DiscoveredTableChosen
        => \/ /\ spc = "resolved"
              /\ \E j \in 1..Len(sink) : sink[j].table = DiscoveredTable
           \/ /\ spc = "rejected"
              /\ lastError = DiscoveredTable

\* C8 (as claimed): when saveToAirtable fails outright - it throws before the
\* handler's timer fires - the response is 500 with canContinue: true.
C8_SinkFailureAnswers500 ==
    (dpc = "done" /\ spc = "rejected" /\ ~timedOut)
        => /\ responses # <<>>
           /\ responses[1].status = 500
           /\ responses[1].canContinue

\* C9 (as claimed): when the handler's timer fires with saveToAirtable still
\* pending, the response is 202 with canContinue: true and a registrationId
\* generated by the handler at that moment.
C9_TimeoutAnswers202 ==
    timedOut
        => /\ responses # <<>>
           /\ responses[1].status = 202
           /\ responses[1].canContinue
           /\ responses[1].registrationId.timestamp = VERCEL_TIMEOUT_LIMIT

\* C10 (as claimed): one register_delivery call creates at most one record in
\* the sink, whatever the outcomes of the per-table requests, and also in what
\* saveToAirtable does after the handler has responded.
C10_AtMostOneRecord ==
    Len(sink) <= 1

---------------------------------------------------------------------------
(* Properties of validateOrderForDelivery, checked under SpecValidator *)

\* the sum of the refund amounts in exact cents
RECURSIVE RefundCents(_)
RefundCents(refunds) ==
    IF refunds = <<>> THEN 0 ELSE Head(refunds).amount + RefundCents(Tail(refunds))

\* the eligibility rules as the specification words them, numbered in its order
FailsRule(o, n) ==
    CASE n = 1 -> o.financial_status \notin {"paid", "partially_paid"}
      [] n = 2 -> o.cancelled_at # Null
      [] n = 3 -> o.fulfillment_status = "fulfilled"
      [] n = 4 -> o.financial_status \in {"refunded", "partially_refunded"}
      [] n = 5 -> Len(o.refunds) > 0 /\ RefundCents(o.refunds) >= o.total_price

FailedRules(o) == {n \in 1..5 : FailsRule(o, n)}

FirstFailedRule(o) == CHOOSE n \in FailedRules(o) : \A m \in FailedRules(o) : n <= m

RuleReason(n) ==
    CASE n = 1 -> "Order payment not confirmed"
      [] n = 2 -> "Order has been cancelled"
      [] n = 3 -> "Order has already been fulfilled"
      [] n = 4 -> "Order has been refunded"
      [] n = 5 -> "Order has been fully refunded"

\* C5 (as claimed): every order whose financial_status is 'refunded' is rejected
\* with the reason 'Order has been refunded', whatever its other fields.
C5_RefundedStatusGivesRefundedReason ==
    (vpc = "validated" /\ order.financial_status = "refunded")
        => decision = Invalid("Order has been refunded")

\* C6 (as claimed): a paid order whose refund records sum to at least its total
\* price is rejected, and as refunded unless an earlier rule rejects it.
C6_RefundSumAtLeastTotalRejected ==
    (/\ vpc = "validated"
     /\ order.financial_status = "paid"
     /\ Len(order.refunds) > 0
     /\ RefundCents(order.refunds) >= order.total_price)
        => /\ ~decision.valid
           /\ (order.cancelled_at = Null /\ order.fulfillment_status # "fulfilled")
                  => decision.reason = "Order has been fully refunded"

\* C7: the rules are applied in the order payment-not-confirmed, cancelled,
\* already-fulfilled, refunded-by-status, refunded-by-amount: an order failing
\* several rules is rejected with the reason of the first of them, and an order
\* failing none is valid.
C7_FirstFailingRuleWins ==
    vpc = "validated" =>
        /\ Cardinality(FailedRules(order)) >= 2
              => decision = Invalid(RuleReason(FirstFailedRule(order)))
        /\ FailedRules(order) = {} => decision = Valid

\* C7 witness: a paid order both cancelled and fulfilled, whose refunds cover its
\* total, has been rejected as cancelled
C7_Witness ==
    /\ vpc = "validated"
    /\ FailedRules(order) = {2, 3, 5}
    /\ decision = Invalid("Order has been cancelled")

====
